---- MODULE Spec2Model ----
(***************************************************************************)
(* Hackathon planner: the budget snapshot calculator, the entity           *)
(* normalizers, the destination reconciler (DestinationView), the saved    *)
(* baseline slot (BudgetCalculator) and the manual trip sync (App).        *)
(*                                                                         *)
(* JavaScript numbers are modelled as exact rationals in lowest terms      *)
(* ([n |-> numerator, d |-> denominator], d > 0), so that equal numbers    *)
(* are equal values.  Untyped JSON values (what storage, a file or the     *)
(* remote store hands to the normalizers) are tagged records, see J*.      *)
(***************************************************************************)
EXTENDS Integers, Sequences, FiniteSets, TLC

(***************************************************************************)
(* Numbers                                                                 *)
(***************************************************************************)
Abs(x) == IF x < 0 THEN -x ELSE x

RECURSIVE GCD(_, _)
GCD(a, b) == IF b = 0 THEN a ELSE GCD(b, a % b)

\* the rational n/d (d > 0) in lowest terms
Num(n, d) == LET g == GCD(Abs(n), d) IN [n |-> n \div g, d |-> d \div g]

\* the integer i as a number
N(i) == [n |-> i, d |-> 1]

NAdd(a, b) == Num(a.n * b.d + b.n * a.d, a.d * b.d)
NSub(a, b) == Num(a.n * b.d - b.n * a.d, a.d * b.d)
NMul(a, b) == Num(a.n * b.n, a.d * b.d)
\* a / b for b > 0 (the calculator only divides by Math.max(1, peopleCount))
NDiv(a, b) == Num(a.n * b.d, a.d * b.n)
NLt(a, b) == a.n * b.d < b.n * a.d
NLe(a, b) == a.n * b.d <= b.n * a.d
NMax(a, b) == IF NLt(a, b) THEN b ELSE a
NFloor(a) == N(a.n \div a.d)

\* sum of the values of a function whose values are numbers (Array.reduce
\* with + from 0; Object.entries(...).reduce likewise)
RECURSIVE SumOf(_)
SumOf(f) ==
  IF DOMAIN f = {} THEN N(0)
  ELSE LET k == CHOOSE x \in DOMAIN f : TRUE
       IN NAdd(f[k], SumOf([x \in DOMAIN f \ {k} |-> f[x]]))

\* the empty object {} / the empty assignment map
EmptyMap == [x \in {} |-> N(0)]

(***************************************************************************)
(* Budget snapshot calculator (utils/budget)                               *)
(***************************************************************************)
\* Array.prototype.find by id: the index of the first element with this id,
\* 0 when there is none
FindIndex(list, id) ==
  LET hits == {i \in DOMAIN list : list[i].id = id}
  IN IF hits = {} THEN 0 ELSE CHOOSE i \in hits : \A j \in hits : i <= j

\* accommodations.find(...) and its totalPrice, 0 when nothing matches
accommodationCost(accommodations, selectedAccommodationId) ==
  LET a == FindIndex(accommodations, selectedAccommodationId)
  IN IF a # 0 THEN accommodations[a].totalPrice ELSE N(0)

\* the reduce over Object.entries(flightAssignments) that prices each entry
flightCost(flights, flightAssignments) ==
  SumOf([id \in DOMAIN flightAssignments |->
           LET i == FindIndex(flights, id)
           IN IF i # 0 THEN NMul(flights[i].pricePerPerson, flightAssignments[id])
              ELSE N(0)])

\* mutant: every entry counts, whether or not its flight is in the list
assignedPeopleCount_All(flights, flightAssignments) == SumOf(flightAssignments)

\* the reduce over Object.entries(flightAssignments) that counts people
assignedPeopleCount(flights, flightAssignments) ==
  SumOf([id \in DOMAIN flightAssignments |->
           IF \E i \in DOMAIN flights : flights[i].id = id
           THEN flightAssignments[id] ELSE N(0)])

\* mutant: the magnitude of the people count divides
safePeopleCount_Magnitude(peopleCount) ==
  NMax(N(1), [n |-> Abs(peopleCount.n), d |-> peopleCount.d])

\* Math.max(1, settings.peopleCount)
safePeopleCount(peopleCount) == NMax(N(1), peopleCount)

calculateBudgetSnapshot(flights, accommodations, flightAssignments, selectedAccommodationId, extraCosts, settings) ==
  LET extraCostsCost == SumOf([i \in DOMAIN extraCosts |-> extraCosts[i].value])
      totalCost == NAdd(NAdd(flightCost(flights, flightAssignments),
                             accommodationCost(accommodations, selectedAccommodationId)),
                        extraCostsCost)
      remaining == NSub(settings.totalBudget, totalCost)
  IN [assignedPeopleCount |-> assignedPeopleCount(flights, flightAssignments),
      flightCost          |-> flightCost(flights, flightAssignments),
      accommodationCost   |-> accommodationCost(accommodations, selectedAccommodationId),
      extraCostsCost      |-> extraCostsCost,
      totalCost           |-> totalCost,
      remaining           |-> remaining,
      perPersonTotal      |-> NDiv(totalCost, safePeopleCount(settings.peopleCount)),
      perPersonRemaining  |-> NDiv(remaining, safePeopleCount(settings.peopleCount)),
      isOverAssigned      |-> NLt(settings.peopleCount,
                                  assignedPeopleCount(flights, flightAssignments))]

(***************************************************************************)
(* Untyped JSON values: what storage, a file or the remote store returns.  *)
(* An object is a function from the names of its own properties to values. *)
(***************************************************************************)
Null == [k |-> "null"]
JUndefined == [k |-> "undefined"]
JNum(x) == [k |-> "number", v |-> x]
JStr(s) == [k |-> "string", s |-> s]
JArr(a) == [k |-> "array", a |-> a]
JObj(o) == [k |-> "object", o |-> o]

\* property access value.key (undefined on a missing property and on a
\* primitive; never applied to null or undefined by the callers below)
Get(j, key) == IF j.k = "object" /\ key \in DOMAIN j.o THEN j.o[key] ELSE JUndefined

\* value && typeof value === 'object' && !Array.isArray(value)
IsPlainObject(j) == j.k = "object"
\* typeof value === 'number' && Number.isFinite(value)
IsFiniteNumber(j) == j.k = "number"
IsString(j) == j.k = "string"

\* String.prototype.trim, on the strings the model uses
Trim(s) == IF s \in {"", " "} THEN "" ELSE s

\* Number(string) for the numeric strings the model uses; NaN otherwise
NumericStrings == {"100", "40"}
StringToNumber(s) == IF s = "100" THEN N(100) ELSE N(40)

(***************************************************************************)
(* Entity normalizers (App)                                                *)
(***************************************************************************)
parseTimestamp(j) ==
  IF IsFiniteNumber(j) /\ NLt(N(0), j.v) THEN j.v ELSE Null

\* the element access of normalizeExtraCosts reads a property of null
normalizeExtraCostsThrows(j) ==
  /\ j.k = "array"
  /\ \E i \in DOMAIN j.a : j.a[i].k \in {"null", "undefined"}

normalizeExtraCosts(j) ==
  IF j.k = "number"
  THEN IF NLt(N(0), j.v)
       THEN <<[description |-> "General extra cost", value |-> j.v]>>
       ELSE <<>>
  ELSE IF j.k # "array" THEN <<>>
  ELSE LET mapped == [i \in DOMAIN j.a |->
                       LET d == Get(j.a[i], "description")
                           v == Get(j.a[i], "value")
                       IN [description |-> IF IsString(d) THEN d.s ELSE "",
                           value |-> IF IsFiniteNumber(v) /\ NLe(N(0), v.v)
                                     THEN v.v ELSE N(0)]]
       IN SelectSeq(mapped, LAMBDA e : Trim(e.description) # "" \/ NLt(N(0), e.value))

normalizeFlightAssignments(j) ==
  IF ~IsPlainObject(j) THEN EmptyMap
  ELSE [id \in {key \in DOMAIN j.o : IsFiniteNumber(j.o[key]) /\ NLe(N(0), j.o[key].v)}
          |-> NFloor(j.o[id].v)]

\* .slice(0, 40) of normalizeBudgetAttempts
AttemptSliceLimit == 40

\* now is Date.now(), rnd the random suffix of a generated attempt id
normalizeBudgetAttempts(j, now, rnd) ==
  IF j.k # "array" THEN <<>>
  ELSE LET objects == SelectSeq(j.a, LAMBDA e : IsPlainObject(e))
           mapped == [i \in DOMAIN objects |->
             LET t == objects[i]
                 createdAt == IF IsFiniteNumber(Get(t, "createdAt"))
                              THEN Get(t, "createdAt").v ELSE now
                 finite(key) == IF IsFiniteNumber(Get(t, key)) THEN Get(t, key).v ELSE N(0)
             IN [id |-> IF IsString(Get(t, "id")) /\ Trim(Get(t, "id").s) # ""
                        THEN Get(t, "id").s ELSE rnd,
                 name |-> IF IsString(Get(t, "name")) /\ Trim(Get(t, "name").s) # ""
                          THEN Get(t, "name").s ELSE "Saved attempt",
                 createdAt |-> createdAt,
                 flightAssignments |-> normalizeFlightAssignments(Get(t, "flightAssignments")),
                 selectedAccommodationId |->
                   IF IsString(Get(t, "selectedAccommodationId"))
                   THEN Get(t, "selectedAccommodationId").s ELSE "",
                 totalCost |-> finite("totalCost"),
                 remaining |-> finite("remaining"),
                 perPersonTotal |-> finite("perPersonTotal")]]
       IN SubSeq(mapped, 1, IF Len(mapped) < AttemptSliceLimit THEN Len(mapped)
                            ELSE AttemptSliceLimit)

\* mutant: every attempt of the list is kept, and the fixed id as stored
normalizeBudgetEstimator_AllAttempts(j, now, rnd) ==
  [flightAssignments |-> normalizeFlightAssignments(Get(j, "flightAssignments")),
   selectedAccommodationId |->
     IF IsString(Get(j, "selectedAccommodationId"))
     THEN Get(j, "selectedAccommodationId").s ELSE "",
   fixedAttemptId |-> IF IsString(Get(j, "fixedAttemptId"))
                      THEN Get(j, "fixedAttemptId").s ELSE "",
   attempts |-> normalizeBudgetAttempts(Get(j, "attempts"), now, rnd)]

normalizeBudgetEstimator(j, now, rnd) ==
  LET attempts == normalizeBudgetAttempts(Get(j, "attempts"), now, rnd)
      fixedAttemptId == IF IsString(Get(j, "fixedAttemptId"))
                        THEN Get(j, "fixedAttemptId").s ELSE ""
      found == FindIndex(attempts, fixedAttemptId)
      normalizedAttempts == IF found # 0 THEN <<attempts[found]>>
                            ELSE IF Len(attempts) > 0 THEN <<attempts[1]>> ELSE <<>>
  IN [flightAssignments |-> normalizeFlightAssignments(Get(j, "flightAssignments")),
      selectedAccommodationId |->
        IF IsString(Get(j, "selectedAccommodationId"))
        THEN Get(j, "selectedAccommodationId").s ELSE "",
      fixedAttemptId |-> IF Len(normalizedAttempts) > 0 THEN normalizedAttempts[1].id ELSE "",
      attempts |-> normalizedAttempts]

parseNumberValue(j) ==
  IF IsFiniteNumber(j) THEN j.v
  ELSE IF IsString(j) /\ Trim(j.s) # "" /\ j.s \in NumericStrings THEN StringToNumber(j.s)
  ELSE Null

normalizeFlightList(j) ==
  IF j.k # "array" THEN <<>>
  ELSE LET valid == SelectSeq(j.a, LAMBDA e :
                      IsPlainObject(e) /\ IsString(Get(e, "id")) /\ Trim(Get(e, "id").s) # "")
       IN [i \in DOMAIN valid |->
            LET parsedPrice == parseNumberValue(Get(valid[i], "pricePerPerson"))
            IN [id |-> Get(valid[i], "id").s,
                pricePerPerson |-> IF parsedPrice # Null /\ NLe(N(0), parsedPrice)
                                   THEN parsedPrice ELSE N(0)]]

normalizeAccommodationList(j) ==
  IF j.k # "array" THEN <<>>
  ELSE LET valid == SelectSeq(j.a, LAMBDA e :
                      IsPlainObject(e) /\ IsString(Get(e, "id")) /\ Trim(Get(e, "id").s) # "")
       IN [i \in DOMAIN valid |->
            LET parsedPrice == parseNumberValue(Get(valid[i], "totalPrice"))
            IN [id |-> Get(valid[i], "id").s,
                totalPrice |-> IF parsedPrice # Null /\ NLe(N(0), parsedPrice)
                               THEN parsedPrice ELSE N(0)]]

\* a LegacyDestination: id, name, latitude, longitude, flights and
\* accommodations typed, notes, extraCosts and budgetEstimator still untyped
normalizeDestination(destination, now, rnd) ==
  [id |-> destination.id,
   name |-> destination.name,
   latitude |-> destination.latitude,
   longitude |-> destination.longitude,
   notes |-> IF IsString(destination.notes) THEN destination.notes.s ELSE "",
   extraCosts |-> normalizeExtraCosts(destination.extraCosts),
   budgetEstimator |-> normalizeBudgetEstimator(destination.budgetEstimator, now, rnd),
   flights |-> destination.flights,
   accommodations |-> destination.accommodations]

\* the candidate passes the guards of normalizeDestinationCandidate
IsDestinationCandidate(j) ==
  /\ IsPlainObject(j)
  /\ IsString(Get(j, "id")) /\ Trim(Get(j, "id").s) # ""
  /\ IsString(Get(j, "name")) /\ Trim(Get(j, "name").s) # ""
  /\ parseNumberValue(Get(j, "latitude")) # Null
  /\ parseNumberValue(Get(j, "longitude")) # Null

normalizeDestinationCandidateThrows(j) ==
  IsDestinationCandidate(j) /\ normalizeExtraCostsThrows(Get(j, "extraCosts"))

normalizeDestinationCandidate(j, now, rnd) ==
  IF ~IsDestinationCandidate(j) THEN Null
  ELSE normalizeDestination(
         [id |-> Get(j, "id").s,
          name |-> Get(j, "name").s,
          latitude |-> parseNumberValue(Get(j, "latitude")),
          longitude |-> parseNumberValue(Get(j, "longitude")),
          notes |-> Get(j, "notes"),
          extraCosts |-> Get(j, "extraCosts"),
          budgetEstimator |-> Get(j, "budgetEstimator"),
          flights |-> normalizeFlightList(Get(j, "flights")),
          accommodations |-> normalizeAccommodationList(Get(j, "accommodations"))],
         now, rnd)

\* mutant: the candidate is ignored
normalizeSettings_KeepLocal(j, fallback) == fallback

normalizeSettings(j, fallback) ==
  IF ~IsPlainObject(j) THEN fallback
  ELSE LET b == Get(j, "totalBudget")
           p == Get(j, "peopleCount")
       IN [totalBudget |-> IF IsFiniteNumber(b) /\ NLe(N(0), b.v)
                           THEN b.v ELSE fallback.totalBudget,
           peopleCount |-> IF IsFiniteNumber(p) /\ NLt(N(0), p.v)
                           THEN NFloor(p.v) ELSE fallback.peopleCount]

parseTripSyncPayloadThrows(payload) ==
  /\ IsPlainObject(payload)
  /\ Get(payload, "destinations").k = "array"
  /\ \E i \in DOMAIN Get(payload, "destinations").a :
        normalizeDestinationCandidateThrows(Get(payload, "destinations").a[i])

\* mutant: an array of which nothing is accepted gives an empty document
parseTripSyncPayload_EmptyTrip(payload, fallbackSettings, now, rnd) ==
  IF ~IsPlainObject(payload) THEN Null
  ELSE IF Get(payload, "destinations").k # "array" THEN Null
  ELSE LET accepted == SelectSeq(Get(payload, "destinations").a,
                                 LAMBDA e : IsDestinationCandidate(e))
       IN [destinations |-> [i \in DOMAIN accepted |->
                               normalizeDestinationCandidate(accepted[i], now, rnd)],
           settings |-> normalizeSettings(Get(payload, "settings"), fallbackSettings),
           remoteUpdatedAt |-> parseTimestamp(Get(Get(payload, "meta"), "updatedAt"))]

parseTripSyncPayload(payload, fallbackSettings, now, rnd) ==
  IF ~IsPlainObject(payload) THEN Null
  ELSE IF Get(payload, "destinations").k # "array" THEN Null
  ELSE LET raw == Get(payload, "destinations").a
           accepted == SelectSeq(raw, LAMBDA e : IsDestinationCandidate(e))
           destinations == [i \in DOMAIN accepted |->
                              normalizeDestinationCandidate(accepted[i], now, rnd)]
       IN IF Len(raw) > 0 /\ Len(destinations) = 0 THEN Null
          ELSE [destinations |-> destinations,
                settings |-> normalizeSettings(Get(payload, "settings"), fallbackSettings),
                remoteUpdatedAt |-> parseTimestamp(Get(Get(payload, "meta"), "updatedAt"))]

(***************************************************************************)
(* The document as a JSON value: what Push hands to the remote store       *)
(***************************************************************************)
assignmentsToJson(fa) == JObj([id \in DOMAIN fa |-> JNum(fa[id])])

attemptToJson(a) ==
  JObj([id |-> JStr(a.id), name |-> JStr(a.name), createdAt |-> JNum(a.createdAt),
        flightAssignments |-> assignmentsToJson(a.flightAssignments),
        selectedAccommodationId |-> JStr(a.selectedAccommodationId),
        totalCost |-> JNum(a.totalCost), remaining |-> JNum(a.remaining),
        perPersonTotal |-> JNum(a.perPersonTotal)])

destinationToJson(d) ==
  JObj([id |-> JStr(d.id), name |-> JStr(d.name),
        latitude |-> JNum(d.latitude), longitude |-> JNum(d.longitude),
        notes |-> JStr(d.notes),
        extraCosts |-> JArr([i \in DOMAIN d.extraCosts |->
            JObj([description |-> JStr(d.extraCosts[i].description),
                  value |-> JNum(d.extraCosts[i].value)])]),
        budgetEstimator |-> JObj(
           [flightAssignments |-> assignmentsToJson(d.budgetEstimator.flightAssignments),
            selectedAccommodationId |-> JStr(d.budgetEstimator.selectedAccommodationId),
            fixedAttemptId |-> JStr(d.budgetEstimator.fixedAttemptId),
            attempts |-> JArr([i \in DOMAIN d.budgetEstimator.attempts |->
                                 attemptToJson(d.budgetEstimator.attempts[i])])]),
        flights |-> JArr([i \in DOMAIN d.flights |->
            JObj([id |-> JStr(d.flights[i].id),
                  pricePerPerson |-> JNum(d.flights[i].pricePerPerson)])]),
        accommodations |-> JArr([i \in DOMAIN d.accommodations |->
            JObj([id |-> JStr(d.accommodations[i].id),
                  totalPrice |-> JNum(d.accommodations[i].totalPrice)])])])

\* the payload of handlePushToTrip
tripSyncPayload(dests, sett, updatedAt, updatedBy) ==
  JObj([destinations |-> JArr([i \in DOMAIN dests |-> destinationToJson(dests[i])]),
        settings |-> JObj([totalBudget |-> JNum(sett.totalBudget),
                           peopleCount |-> JNum(sett.peopleCount)]),
        meta |-> JObj([updatedAt |-> JNum(updatedAt), updatedBy |-> JStr(updatedBy)])])

(***************************************************************************)
(* State                                                                   *)
(***************************************************************************)
VARIABLES
  destinations,           \* per client: the Destination list (useLocalStorage)
  settings,               \* per client: PlannerSettings
  tripCode,               \* per client: the trip code field, normalized
  lastKnownRemoteByCode,  \* per client: code -> timestamp, absent codes read 0
  lastLocalPushByCode,    \* per client: code -> timestamp
  syncStatus,             \* per client: kind of the status message
  isPulling,              \* per client
  isPushing,              \* per client
  latestRemoteUpdatedAt,  \* per client: timestamp or Null
  task,                   \* per client: the suspended async handler, if any
  remote,                 \* code -> JSON value at trips/<code>, Null when absent
  isTripSyncAvailable,    \* whether the remote store is configured
  now,                    \* Date.now()
  steps,                  \* number of user edits so far (bounds the exploration)
  calcInput,              \* input of a calculateBudgetSnapshot call
  calcResult,             \* its result, Null before the call
  normInput,              \* the normalizer called and what it was handed
  normResult,             \* what the call returned, or Thrown
  lastRemoteCheckAt,      \* per client: time of the last settled staleness read, or Null
  remoteChecks,           \* per client: the staleness reads in flight
  live,                   \* the live-subscription App: its state, refs and pending work
  liveRemote,             \* the live App's store: code -> JSON value at trips/<code>
  liveEvents              \* value events the store has queued for the live App's listener

docVars == <<destinations, settings>>
syncVars == <<tripCode, lastKnownRemoteByCode, lastLocalPushByCode, syncStatus,
              isPulling, isPushing, latestRemoteUpdatedAt, task>>
calcVars == <<calcInput, calcResult>>
normVars == <<normInput, normResult>>
checkVars == <<lastRemoteCheckAt, remoteChecks>>
liveVars == <<live, liveRemote, liveEvents>>
vars == <<destinations, settings, tripCode, lastKnownRemoteByCode, lastLocalPushByCode,
          syncStatus, isPulling, isPushing, latestRemoteUpdatedAt, task, remote,
          isTripSyncAvailable, now, steps, calcInput, calcResult, normInput, normResult,
          lastRemoteCheckAt, remoteChecks, live, liveRemote, liveEvents>>

Clients == {"c1", "c2"}

(***************************************************************************)
(* Bounds and input sets                                                   *)
(***************************************************************************)
MaxSteps == 3
MaxNow == 2
MaxFlights == 2
MaxAccommodations == 2
MaxExtraCosts == 1
MaxDestinations == 1

FlightIds == {"f1", "f2"}
AccommodationIds == {"h1", "h2"}
AttemptIds == {"a1"}
DestinationIds == {"d1", "d2"}
FlightPrices == {N(100), N(40)}
AccommodationPrices == {N(500), N(300)}
ExtraCostValues == {N(50)}
\* parseInt(value, 10) || 0 of the assignment input
AssignmentCounts == {-1, 0, 2}

\* the value a map gives a code, 0 when the code has no entry (?? 0)
AtCode(map, code) == IF code \in DOMAIN map THEN map[code] ELSE N(0)
\* { ...previous, [code]: value }
WithCode(map, code, value) ==
  [x \in DOMAIN map \cup {code} |-> IF x = code THEN value ELSE map[x]]

(***************************************************************************)
(* Destination reconciler (DestinationView)                                *)
(***************************************************************************)
\* mutant: the assignments are kept as they are
keepValidFlightIds_NoPrune(flightAssignments, flights) == flightAssignments

\* restriction of an assignment map to the ids of a flight list
keepValidFlightIds(flightAssignments, flights) ==
  LET validFlightIds == {flights[i].id : i \in DOMAIN flights}
  IN [id \in DOMAIN flightAssignments \cap validFlightIds |-> flightAssignments[id]]

\* the updater of handleFlightsChange
flightsChangeUpdater(currentDestination, flights, sett) ==
  LET be == currentDestination.budgetEstimator
      firstAttempts == SubSeq(be.attempts, 1, IF Len(be.attempts) < 1 THEN 0 ELSE 1)
      nextAttempts == [i \in DOMAIN firstAttempts |->
        LET attempt == firstAttempts[i]
            nextAttemptAssignments == keepValidFlightIds(attempt.flightAssignments, flights)
            nextSnapshot == calculateBudgetSnapshot(flights, currentDestination.accommodations,
                              nextAttemptAssignments, attempt.selectedAccommodationId,
                              currentDestination.extraCosts, sett)
        IN [attempt EXCEPT !.flightAssignments = nextAttemptAssignments,
                           !.totalCost = nextSnapshot.totalCost,
                           !.remaining = nextSnapshot.remaining,
                           !.perPersonTotal = nextSnapshot.perPersonTotal]]
  IN [currentDestination EXCEPT
        !.flights = flights,
        !.budgetEstimator = [be EXCEPT
           !.flightAssignments = keepValidFlightIds(be.flightAssignments, flights),
           !.attempts = nextAttempts,
           !.fixedAttemptId = IF Len(nextAttempts) > 0 THEN nextAttempts[1].id ELSE ""]]

\* mutant: the id is kept whatever the list holds
keepValidAccommodationId_Keep(id, accommodations) == id

\* the id kept when it names an accommodation of the list, '' otherwise
keepValidAccommodationId(id, accommodations) ==
  IF \E i \in DOMAIN accommodations : accommodations[i].id = id THEN id ELSE ""

\* the updater of handleAccChange
accChangeUpdater(currentDestination, accommodations, sett) ==
  LET be == currentDestination.budgetEstimator
      firstAttempts == SubSeq(be.attempts, 1, IF Len(be.attempts) < 1 THEN 0 ELSE 1)
      nextAttempts == [i \in DOMAIN firstAttempts |->
        LET attempt == firstAttempts[i]
            nextAttemptAccommodationId ==
              keepValidAccommodationId(attempt.selectedAccommodationId, accommodations)
            nextSnapshot == calculateBudgetSnapshot(currentDestination.flights, accommodations,
                              attempt.flightAssignments, nextAttemptAccommodationId,
                              currentDestination.extraCosts, sett)
        IN [attempt EXCEPT !.selectedAccommodationId = nextAttemptAccommodationId,
                           !.totalCost = nextSnapshot.totalCost,
                           !.remaining = nextSnapshot.remaining,
                           !.perPersonTotal = nextSnapshot.perPersonTotal]]
  IN [currentDestination EXCEPT
        !.accommodations = accommodations,
        !.budgetEstimator = [be EXCEPT
           !.selectedAccommodationId =
              keepValidAccommodationId(be.selectedAccommodationId, accommodations),
           !.attempts = nextAttempts,
           !.fixedAttemptId = IF Len(nextAttempts) > 0 THEN nextAttempts[1].id ELSE ""]]

\* the updater of handleAttemptsChange
attemptsChangeUpdater(currentDestination, attempts) ==
  LET nextAttempts == SubSeq(attempts, 1, IF Len(attempts) < 1 THEN 0 ELSE 1)
  IN [currentDestination EXCEPT
        !.budgetEstimator.attempts = nextAttempts,
        !.budgetEstimator.fixedAttemptId =
            IF Len(nextAttempts) > 0 THEN nextAttempts[1].id ELSE ""]

\* the updater of handleFixedAttemptIdChange
fixedAttemptIdChangeUpdater(currentDestination, fixedAttemptId) ==
  [currentDestination EXCEPT
     !.budgetEstimator.fixedAttemptId =
        IF fixedAttemptId # ""
           /\ \E i \in DOMAIN currentDestination.budgetEstimator.attempts :
                 currentDestination.budgetEstimator.attempts[i].id = fixedAttemptId
        THEN fixedAttemptId ELSE ""]

\* handleUpdateDestination: the updater applied to every destination with the id
handleUpdateDestination(list, destinationId, updater) ==
  [i \in DOMAIN list |-> IF list[i].id = destinationId THEN updater[list[i]] ELSE list[i]]

(***************************************************************************)
(* What the components of one client are rendered with                     *)
(***************************************************************************)
\* activeDestination: destinations.find(d => d.id === activeId)
HasDestination(c, id) == FindIndex(destinations[c], id) # 0
Destination(c, id) == destinations[c][FindIndex(destinations[c], id)]

\* the snapshot BudgetCalculator shows for the live selection
liveSnapshot(d, sett) ==
  calculateBudgetSnapshot(d.flights, d.accommodations, d.budgetEstimator.flightAssignments,
                          d.budgetEstimator.selectedAccommodationId, d.extraCosts, sett)

\* mutant: the slot always reads as empty
savedAttempt_None(be) == <<>>

\* savedAttempt of BudgetCalculator: <<>> when there is none, else <<attempt>>
savedAttempt(be) ==
  LET found == FindIndex(be.attempts, be.fixedAttemptId)
  IN IF found # 0 THEN <<be.attempts[found]>>
     ELSE IF Len(be.attempts) > 0 THEN <<be.attempts[1]>> ELSE <<>>

\* areAssignmentsEqual: the positive entries of both maps agree
areAssignmentsEqual(left, right) ==
  LET leftEntries == {id \in DOMAIN left : NLt(N(0), left[id])}
      rightEntries == {id \in DOMAIN right : NLt(N(0), right[id])}
  IN /\ Cardinality(leftEntries) = Cardinality(rightEntries)
     /\ \A id \in leftEntries : id \in DOMAIN right /\ right[id] = left[id]

hasUnsavedChanges(d, sett) ==
  LET saved == savedAttempt(d.budgetEstimator)
  IN /\ saved # <<>>
     /\ \/ saved[1].selectedAccommodationId # d.budgetEstimator.selectedAccommodationId
        \/ ~areAssignmentsEqual(saved[1].flightAssignments, d.budgetEstimator.flightAssignments)
        \/ saved[1].totalCost # liveSnapshot(d, sett).totalCost

\* ids a freshly generated uuid cannot collide with
idsOf(list) == {list[i].id : i \in DOMAIN list}
knownFlightIds(d) ==
  idsOf(d.flights) \cup DOMAIN d.budgetEstimator.flightAssignments
    \cup UNION {DOMAIN d.budgetEstimator.attempts[i].flightAssignments :
                  i \in DOMAIN d.budgetEstimator.attempts}
knownAccommodationIds(d) ==
  idsOf(d.accommodations) \cup {d.budgetEstimator.selectedAccommodationId}
    \cup {d.budgetEstimator.attempts[i].selectedAccommodationId :
            i \in DOMAIN d.budgetEstimator.attempts}

\* no confirm() dialog of this client is open (a dialog blocks its event loop)
Responsive(c) == task[c].pc # "push-confirm"

\* the destinations an updater of client c may be handed
Listed(c) == {destinations[c][i] : i \in DOMAIN destinations[c]}

\* commitUpdate of DestinationView, as one user edit; the updater is a
\* function on the destinations of the list
Commit(c, id, updater) ==
  /\ Responsive(c)
  /\ steps < MaxSteps
  /\ steps' = steps + 1
  /\ destinations' = [destinations EXCEPT ![c] = handleUpdateDestination(@, id, updater)]
  /\ UNCHANGED <<settings, syncVars, remote, isTripSyncAvailable, now, calcVars, normVars, checkVars, liveVars>>

(***************************************************************************)
(* FlightManager and AccommodationManager: every edit ends in onChange     *)
(***************************************************************************)
handleFlightsChange(c, id, flights) ==
  Commit(c, id, [cur \in Listed(c) |-> flightsChangeUpdater(cur, flights, settings[c])])

handleAccChange(c, id, accommodations) ==
  Commit(c, id, [cur \in Listed(c) |-> accChangeUpdater(cur, accommodations, settings[c])])

\* handleAdd (quick add) and handleBulkImport of one row
FlightAdd(c) ==
  \E id \in DestinationIds, fid \in FlightIds, price \in FlightPrices :
    /\ HasDestination(c, id)
    /\ Len(Destination(c, id).flights) < MaxFlights
    /\ fid \notin knownFlightIds(Destination(c, id))
    /\ handleFlightsChange(c, id, Append(Destination(c, id).flights,
                                         [id |-> fid, pricePerPerson |-> price]))

FlightDuplicate(c) ==
  \E id \in DestinationIds, fid \in FlightIds :
    /\ HasDestination(c, id)
    /\ Len(Destination(c, id).flights) < MaxFlights
    /\ fid \notin knownFlightIds(Destination(c, id))
    /\ \E i \in DOMAIN Destination(c, id).flights :
         handleFlightsChange(c, id, Append(Destination(c, id).flights,
            [Destination(c, id).flights[i] EXCEPT !.id = fid]))

FlightRemove(c) ==
  \E id \in DestinationIds, fid \in FlightIds :
    /\ HasDestination(c, id)
    /\ fid \in idsOf(Destination(c, id).flights)
    /\ handleFlightsChange(c, id,
         SelectSeq(Destination(c, id).flights, LAMBDA f : f.id # fid))

\* saveEdit
FlightEdit(c) ==
  \E id \in DestinationIds, fid \in FlightIds, price \in FlightPrices :
    /\ HasDestination(c, id)
    /\ fid \in idsOf(Destination(c, id).flights)
    /\ handleFlightsChange(c, id,
         [i \in DOMAIN Destination(c, id).flights |->
            IF Destination(c, id).flights[i].id = fid
            THEN [Destination(c, id).flights[i] EXCEPT !.pricePerPerson = price]
            ELSE Destination(c, id).flights[i]])

AccommodationAdd(c) ==
  \E id \in DestinationIds, aid \in AccommodationIds, price \in AccommodationPrices :
    /\ HasDestination(c, id)
    /\ Len(Destination(c, id).accommodations) < MaxAccommodations
    /\ aid \notin knownAccommodationIds(Destination(c, id))
    /\ handleAccChange(c, id, Append(Destination(c, id).accommodations,
                                     [id |-> aid, totalPrice |-> price]))

AccommodationDuplicate(c) ==
  \E id \in DestinationIds, aid \in AccommodationIds :
    /\ HasDestination(c, id)
    /\ Len(Destination(c, id).accommodations) < MaxAccommodations
    /\ aid \notin knownAccommodationIds(Destination(c, id))
    /\ \E i \in DOMAIN Destination(c, id).accommodations :
         handleAccChange(c, id, Append(Destination(c, id).accommodations,
            [Destination(c, id).accommodations[i] EXCEPT !.id = aid]))

AccommodationRemove(c) ==
  \E id \in DestinationIds, aid \in AccommodationIds :
    /\ HasDestination(c, id)
    /\ aid \in idsOf(Destination(c, id).accommodations)
    /\ handleAccChange(c, id,
         SelectSeq(Destination(c, id).accommodations, LAMBDA a : a.id # aid))

AccommodationEdit(c) ==
  \E id \in DestinationIds, aid \in AccommodationIds, price \in AccommodationPrices :
    /\ HasDestination(c, id)
    /\ aid \in idsOf(Destination(c, id).accommodations)
    /\ handleAccChange(c, id,
         [i \in DOMAIN Destination(c, id).accommodations |->
            IF Destination(c, id).accommodations[i].id = aid
            THEN [Destination(c, id).accommodations[i] EXCEPT !.totalPrice = price]
            ELSE Destination(c, id).accommodations[i]])

(***************************************************************************)
(* BudgetCalculator                                                        *)
(***************************************************************************)
\* mutant: the saved attempt follows the live assignments
flightAssignmentsChangeUpdater_Refreshes(currentDestination, flightAssignments) ==
  [currentDestination EXCEPT
     !.budgetEstimator.flightAssignments = flightAssignments,
     !.budgetEstimator.attempts =
        [i \in DOMAIN @ |-> [@[i] EXCEPT !.flightAssignments = flightAssignments]]]

\* the updater of handleFlightAssignmentsChange
flightAssignmentsChangeUpdater(currentDestination, flightAssignments) ==
  [currentDestination EXCEPT !.budgetEstimator.flightAssignments = flightAssignments]

\* the updater of handleSelectedAccommodationChange
selectedAccommodationChangeUpdater(currentDestination, selectedAccommodationId) ==
  [currentDestination EXCEPT !.budgetEstimator.selectedAccommodationId = selectedAccommodationId]

\* the map handleAssignmentChange hands to onFlightAssignmentsChange
nextAssignments(flightAssignments, flightId, count) ==
  IF count = 0
  THEN [x \in DOMAIN flightAssignments \ {flightId} |-> flightAssignments[x]]
  ELSE [x \in DOMAIN flightAssignments \cup {flightId} |->
          IF x = flightId THEN N(count) ELSE flightAssignments[x]]

\* the assignment input of one of the listed flights
handleAssignmentChange(c) ==
  \E id \in DestinationIds, flightId \in FlightIds, count \in AssignmentCounts :
    /\ HasDestination(c, id)
    /\ flightId \in idsOf(Destination(c, id).flights)
    /\ ~(count < 0)
    /\ Commit(c, id, [cur \in Listed(c) |-> flightAssignmentsChangeUpdater(cur,
          nextAssignments(Destination(c, id).budgetEstimator.flightAssignments,
                          flightId, count))])

\* the accommodation select: '' or one of the listed accommodations
handleSelectedAccommodationChange(c) ==
  \E id \in DestinationIds, value \in AccommodationIds \cup {""} :
    /\ HasDestination(c, id)
    /\ value \in idsOf(Destination(c, id).accommodations) \cup {""}
    /\ Commit(c, id, [cur \in Listed(c) |-> selectedAccommodationChangeUpdater(cur, value)])

\* handleAddExtraCost, handleExtraCostChange and handleRemoveExtraCost all end
\* in handleExtraCostsChange
handleExtraCostsChange(c) ==
  \E id \in DestinationIds :
    /\ HasDestination(c, id)
    /\ LET extraCosts == Destination(c, id).extraCosts
           added == IF Len(extraCosts) < MaxExtraCosts
                    THEN {Append(extraCosts, [description |-> "", value |-> N(0)])}
                    ELSE {}
           changed == {[extraCosts EXCEPT ![i].value = v] :
                         i \in DOMAIN extraCosts, v \in ExtraCostValues}
           removed == {[j \in 1..(Len(extraCosts) - 1) |->
                          IF j < i THEN extraCosts[j] ELSE extraCosts[j + 1]] :
                         i \in DOMAIN extraCosts}
       IN \E next \in added \cup changed \cup removed :
            Commit(c, id, [cur \in Listed(c) |-> [cur EXCEPT !.extraCosts = next]])

\* the attempt saveBaseline and replaceSavedWithCurrent build from the props
currentAsAttempt(d, sett, attemptId, createdAt) ==
  [id |-> attemptId,
   name |-> "Saved baseline",
   createdAt |-> createdAt,
   flightAssignments |-> d.budgetEstimator.flightAssignments,
   selectedAccommodationId |-> d.budgetEstimator.selectedAccommodationId,
   totalCost |-> liveSnapshot(d, sett).totalCost,
   remaining |-> liveSnapshot(d, sett).remaining,
   perPersonTotal |-> liveSnapshot(d, sett).perPersonTotal]

\* mutant: a queued update is computed from the value of the last render
storedValue_Stale(rendered, queued) == rendered

\* the value the setter of useLocalStorage hands to an updater function: the
\* current value, with the updates queued before it already applied
storedValue(rendered, queued) == queued

\* onAttemptsChange(attempts) followed by onFixedAttemptIdChange(fixedAttemptId)
attemptsThenFixedId(cur, attempts, fixedAttemptId) ==
  fixedAttemptIdChangeUpdater(storedValue(cur, attemptsChangeUpdater(cur, attempts)),
                              fixedAttemptId)

\* with a saved attempt the handler returns before it calls anything
saveBaseline(c) ==
  \E id \in DestinationIds, attemptId \in AttemptIds :
    /\ HasDestination(c, id)
    /\ LET newAttempt == currentAsAttempt(Destination(c, id), settings[c], attemptId, N(now))
       IN Commit(c, id, [cur \in Listed(c) |->
            IF savedAttempt(Destination(c, id).budgetEstimator) # <<>> THEN cur
            ELSE attemptsThenFixedId(cur, <<newAttempt>>, newAttempt.id)])

\* the handler returns at once without a saved attempt; with one it calls
\* onFlightAssignmentsChange and then onSelectedAccommodationChange, two
\* updates of the destination list in a row
applySavedBaseline(c) ==
  \E id \in DestinationIds :
    /\ HasDestination(c, id)
    /\ Responsive(c)
    /\ steps < MaxSteps
    /\ steps' = steps + 1
    /\ LET saved == savedAttempt(Destination(c, id).budgetEstimator)
           rendered == destinations[c]
           first == handleUpdateDestination(rendered, id,
                      [cur \in Listed(c) |->
                         flightAssignmentsChangeUpdater(cur, saved[1].flightAssignments)])
           seen == storedValue(rendered, first)
           second == handleUpdateDestination(seen, id,
                       [cur \in {seen[i] : i \in DOMAIN seen} |->
                          selectedAccommodationChangeUpdater(cur, saved[1].selectedAccommodationId)])
       IN destinations' = [destinations EXCEPT ![c] = IF saved = <<>> THEN rendered ELSE second]
    /\ UNCHANGED <<settings, syncVars, remote, isTripSyncAvailable, now, calcVars, normVars, checkVars, liveVars>>

\* mutant: the override draws a new attempt id
replaceSavedWithCurrent_NewId(c) ==
  \E id \in DestinationIds, attemptId \in {"a3"} :
    /\ HasDestination(c, id)
    /\ LET saved == savedAttempt(Destination(c, id).budgetEstimator)
           updatedAttempt == currentAsAttempt(Destination(c, id), settings[c], attemptId, N(now))
       IN /\ saved # <<>> => hasUnsavedChanges(Destination(c, id), settings[c])
          /\ Commit(c, id, [cur \in Listed(c) |->
               IF saved = <<>> THEN cur
               ELSE attemptsThenFixedId(cur, <<updatedAttempt>>, updatedAttempt.id)])

\* the handler returns at once without a saved attempt; with one the button
\* is disabled unless hasUnsavedChanges
replaceSavedWithCurrent(c) ==
  \E id \in DestinationIds :
    /\ HasDestination(c, id)
    /\ LET saved == savedAttempt(Destination(c, id).budgetEstimator)
           updatedAttempt == currentAsAttempt(Destination(c, id), settings[c], saved[1].id, N(now))
       IN /\ saved # <<>> => hasUnsavedChanges(Destination(c, id), settings[c])
          /\ Commit(c, id, [cur \in Listed(c) |->
               IF saved = <<>> THEN cur
               ELSE attemptsThenFixedId(cur, <<updatedAttempt>>, updatedAttempt.id)])

\* the button is shown only with a saved attempt
clearSavedBaseline(c) ==
  \E id \in DestinationIds :
    /\ HasDestination(c, id)
    /\ savedAttempt(Destination(c, id).budgetEstimator) # <<>>
    /\ Commit(c, id, [cur \in Listed(c) |-> attemptsThenFixedId(cur, <<>>, "")])

(***************************************************************************)
(* App: settings, destinations, import                                     *)
(***************************************************************************)
NaN == [k |-> "NaN"]
\* Number(value) of what is typed into the two settings inputs
TotalBudgetInputs == {JNum(N(2000)), JNum(N(-5))}
PeopleCountInputs == {JNum(N(2)), JNum(Num(1, 2)), NaN}

handleTotalBudgetChange(c) ==
  \E parsed \in TotalBudgetInputs :
    /\ Responsive(c)
    /\ steps < MaxSteps
    /\ steps' = steps + 1
    /\ settings' = [settings EXCEPT ![c].totalBudget =
                      IF IsFiniteNumber(parsed) /\ NLe(N(0), parsed.v) THEN parsed.v ELSE N(0)]
    /\ UNCHANGED <<destinations, syncVars, remote, isTripSyncAvailable, now, calcVars, normVars, checkVars, liveVars>>

handlePeopleCountChange(c) ==
  \E parsed \in PeopleCountInputs :
    /\ Responsive(c)
    /\ steps < MaxSteps
    /\ steps' = steps + 1
    /\ settings' = [settings EXCEPT ![c].peopleCount =
                      IF IsFiniteNumber(parsed) /\ NLt(N(0), parsed.v)
                      THEN NFloor(parsed.v) ELSE N(1)]
    /\ UNCHANGED <<destinations, syncVars, remote, isTripSyncAvailable, now, calcVars, normVars, checkVars, liveVars>>

\* the Destination AddDestinationModal builds, as handed to normalizeDestination
newDestination(id) ==
  [id |-> id, name |-> "City", latitude |-> N(53), longitude |-> N(-6),
   notes |-> JStr(""), extraCosts |-> JArr(<<>>),
   budgetEstimator |-> JObj([flightAssignments |-> JObj(EmptyMap),
                             selectedAccommodationId |-> JStr("")]),
   flights |-> <<>>, accommodations |-> <<>>]

handleAddDestination(c) ==
  \E id \in DestinationIds :
    /\ Responsive(c)
    /\ steps < MaxSteps
    /\ Len(destinations[c]) < MaxDestinations
    /\ id \notin idsOf(destinations[c])
    /\ steps' = steps + 1
    /\ destinations' = [destinations EXCEPT
                          ![c] = Append(@, normalizeDestination(newDestination(id), N(now), "gen"))]
    /\ UNCHANGED <<settings, syncVars, remote, isTripSyncAvailable, now, calcVars, normVars, checkVars, liveVars>>

handleRemoveDestination(c) ==
  \E id \in DestinationIds :
    /\ Responsive(c)
    /\ steps < MaxSteps
    /\ id \in idsOf(destinations[c])
    /\ steps' = steps + 1
    /\ destinations' = [destinations EXCEPT ![c] = SelectSeq(@, LAMBDA d : d.id # id)]
    /\ UNCHANGED <<settings, syncVars, remote, isTripSyncAvailable, now, calcVars, normVars, checkVars, liveVars>>

\* Date.now() advances
Tick ==
  /\ now < MaxNow
  /\ now' = now + 1
  /\ UNCHANGED <<docVars, syncVars, remote, isTripSyncAvailable, steps, calcVars, normVars, checkVars, liveVars>>

(***************************************************************************)
(* App: trip code                                                          *)
(***************************************************************************)
TRIP_CODE_MIN_LENGTH == 4
TRIP_CODE_MAX_LENGTH == 12

\* strings of the trip code field are sequences of characters
ToUpperCase(ch) ==
  CASE ch = "a" -> "A" [] ch = "b" -> "B" [] ch = "c" -> "C" [] ch = "d" -> "D"
    [] OTHER -> ch
IsCodeChar(ch) == ch \in {"A", "B", "C", "D", "0", "1"}

normalizeTripCode(value) ==
  LET upper == [i \in DOMAIN value |-> ToUpperCase(value[i])]
      kept == SelectSeq(upper, IsCodeChar)
  IN SubSeq(kept, 1, IF Len(kept) < TRIP_CODE_MAX_LENGTH THEN Len(kept)
                     ELSE TRIP_CODE_MAX_LENGTH)

\* what the user types into the trip code field
TripCodeInputs == {<<"a", "b", "-", "c", "d">>, <<"a", "b">>}
\* the paths trips/<code> the clients can address
TripCodes == {code \in {normalizeTripCode(v) : v \in TripCodeInputs} :
                Len(code) >= TRIP_CODE_MIN_LENGTH}

hasValidTripCode(c) == Len(tripCode[c]) >= TRIP_CODE_MIN_LENGTH

Status(kind, message) == [kind |-> kind, message |-> message]

\* the effect that watches trips/<code>/meta/updatedAt, re-run because the
\* code changed: the reads of the previous run are cancelled; without a valid
\* code both indicators are cleared, with one a read is issued at once
remoteCheckEffect(c, code) ==
  LET cancelledReads == {[r EXCEPT !.cancelled = TRUE] : r \in remoteChecks[c]}
      active == isTripSyncAvailable /\ Len(code) >= TRIP_CODE_MIN_LENGTH
  IN /\ remoteChecks' = [remoteChecks EXCEPT ![c] =
          IF active THEN cancelledReads \cup {[code |-> code, cancelled |-> FALSE]}
          ELSE cancelledReads]
     /\ latestRemoteUpdatedAt' =
          IF active THEN latestRemoteUpdatedAt
          ELSE [latestRemoteUpdatedAt EXCEPT ![c] = Null]
     /\ lastRemoteCheckAt' =
          IF active THEN lastRemoteCheckAt ELSE [lastRemoteCheckAt EXCEPT ![c] = Null]

\* handleTripCodeChange on what the field holds after a key stroke
tripCodeChange(c, value) ==
  /\ Responsive(c)
  /\ steps < MaxSteps
  /\ steps' = steps + 1
  /\ tripCode' = [tripCode EXCEPT ![c] = normalizeTripCode(value)]
  /\ syncStatus' = [syncStatus EXCEPT ![c] = Status("neutral", "use pull or push")]
  /\ IF normalizeTripCode(value) # tripCode[c]
     THEN remoteCheckEffect(c, normalizeTripCode(value))
     ELSE UNCHANGED <<latestRemoteUpdatedAt, checkVars>>
  /\ UNCHANGED <<docVars, lastKnownRemoteByCode, lastLocalPushByCode, isPulling, isPushing,
                 task, remote, isTripSyncAvailable, now, calcVars, normVars, liveVars>>

handleTripCodeChange(c) == \E value \in TripCodeInputs : tripCodeChange(c, value)

\* the interval timer, a window focus or the page turning visible: one more
\* read of meta/updatedAt is issued
checkRemoteUpdatedAt(c) ==
  /\ Responsive(c)
  /\ isTripSyncAvailable
  /\ hasValidTripCode(c)
  /\ steps < MaxSteps
  /\ steps' = steps + 1
  /\ remoteChecks' = [remoteChecks EXCEPT ![c] =
                        @ \cup {[code |-> tripCode[c], cancelled |-> FALSE]}]
  /\ UNCHANGED <<docVars, syncVars, lastRemoteCheckAt, remote, isTripSyncAvailable, now,
                 calcVars, normVars, liveVars>>

\* mutant: a settled read also records what it saw as the last known remote
RemoteCheckSettles_MarksKnown(c, r, value) ==
  /\ Responsive(c)
  /\ r \in remoteChecks[c]
  /\ remoteChecks' = [remoteChecks EXCEPT ![c] = @ \ {r}]
  /\ latestRemoteUpdatedAt' = [latestRemoteUpdatedAt EXCEPT ![c] = value]
  /\ lastRemoteCheckAt' = [lastRemoteCheckAt EXCEPT ![c] = N(now)]
  /\ lastKnownRemoteByCode' = [lastKnownRemoteByCode EXCEPT ![c] =
                                 WithCode(@, r.code, IF value = Null THEN N(0) ELSE value)]
  /\ UNCHANGED <<docVars, tripCode, lastLocalPushByCode, syncStatus,
                 isPulling, isPushing, task, remote, isTripSyncAvailable, now, steps,
                 calcVars, normVars, liveVars>>

\* a read settles: unless its effect run was cancelled, value is stored as
\* the latest remote timestamp and the time of the check is recorded
RemoteCheckSettles(c, r, value) ==
  /\ Responsive(c)
  /\ r \in remoteChecks[c]
  /\ remoteChecks' = [remoteChecks EXCEPT ![c] = @ \ {r}]
  /\ latestRemoteUpdatedAt' =
       IF r.cancelled THEN latestRemoteUpdatedAt
       ELSE [latestRemoteUpdatedAt EXCEPT ![c] = value]
  /\ lastRemoteCheckAt' =
       IF r.cancelled THEN lastRemoteCheckAt
       ELSE [lastRemoteCheckAt EXCEPT ![c] = N(now)]
  /\ UNCHANGED <<docVars, tripCode, lastKnownRemoteByCode, lastLocalPushByCode, syncStatus,
                 isPulling, isPushing, task, remote, isTripSyncAvailable, now, steps,
                 calcVars, normVars, liveVars>>

\* get() resolves with the value at meta/updatedAt
RemoteCheckResolves(c) ==
  \E r \in remoteChecks[c] :
    RemoteCheckSettles(c, r, parseTimestamp(Get(Get(remote[r.code], "meta"), "updatedAt")))

\* get() rejects
RemoteCheckRejects(c) ==
  \E r \in remoteChecks[c] : RemoteCheckSettles(c, r, Null)

Idle == [pc |-> "idle"]
\* mutant: the buttons stay enabled while an operation is pending
CanStartSync_Reentrant(c) ==
  /\ Responsive(c)
  /\ steps < MaxSteps
  /\ steps' = steps + 1

\* the Pull and Push buttons are disabled while either flag is set; a click is
\* one more user action
CanStartSync(c) ==
  /\ Responsive(c) /\ ~isPulling[c] /\ ~isPushing[c]
  /\ steps < MaxSteps
  /\ steps' = steps + 1

\* a handler that only reports a status
OnlyStatus(c, status) ==
  /\ syncStatus' = [syncStatus EXCEPT ![c] = status]
  /\ UNCHANGED <<docVars, tripCode, lastKnownRemoteByCode, lastLocalPushByCode, isPulling,
                 isPushing, latestRemoteUpdatedAt, task, remote, isTripSyncAvailable, now,
                 calcVars, normVars, checkVars, liveVars>>

(***************************************************************************)
(* App: handlePullFromTrip                                                 *)
(***************************************************************************)
GeneratedIds == {"gen"}

PullUnavailable(c) ==
  /\ CanStartSync(c)
  /\ ~isTripSyncAvailable
  /\ OnlyStatus(c, Status("error", "sync not configured"))

PullInvalidCode(c) ==
  /\ CanStartSync(c)
  /\ isTripSyncAvailable
  /\ ~hasValidTripCode(c)
  /\ OnlyStatus(c, Status("warning", "code too short"))

\* up to the await: the handler keeps the code and the settings it was rendered with
PullStart(c) ==
  /\ CanStartSync(c)
  /\ isTripSyncAvailable
  /\ hasValidTripCode(c)
  /\ isPulling' = [isPulling EXCEPT ![c] = TRUE]
  /\ task' = [task EXCEPT ![c] = [pc |-> "pull-get", code |-> tripCode[c],
                                   settings |-> settings[c]]]
  /\ UNCHANGED <<docVars, tripCode, lastKnownRemoteByCode, lastLocalPushByCode, syncStatus,
                 isPushing, latestRemoteUpdatedAt, remote, isTripSyncAvailable, now, calcVars, normVars, checkVars, liveVars>>

\* mutant: a pull that does not succeed empties the local document
PullEnds_ClearsDocument(c, status) ==
  /\ syncStatus' = [syncStatus EXCEPT ![c] = status]
  /\ isPulling' = [isPulling EXCEPT ![c] = FALSE]
  /\ task' = [task EXCEPT ![c] = Idle]
  /\ destinations' = [destinations EXCEPT ![c] = <<>>]
  /\ UNCHANGED <<settings, tripCode, lastKnownRemoteByCode, lastLocalPushByCode, isPushing,
                 remote, isTripSyncAvailable, now, steps, calcVars, normVars, checkVars, liveVars>>

\* the end of a pull that changes nothing but the status (and finally isPulling)
PullEnds(c, status) ==
  /\ syncStatus' = [syncStatus EXCEPT ![c] = status]
  /\ isPulling' = [isPulling EXCEPT ![c] = FALSE]
  /\ task' = [task EXCEPT ![c] = Idle]
  /\ UNCHANGED <<docVars, tripCode, lastKnownRemoteByCode, lastLocalPushByCode, isPushing,
                 remote, isTripSyncAvailable, now, steps, calcVars, normVars, checkVars, liveVars>>

PullNotFound(c) ==
  /\ task[c].pc = "pull-get"
  /\ remote[task[c].code] = Null
  /\ latestRemoteUpdatedAt' = [latestRemoteUpdatedAt EXCEPT ![c] = Null]
  /\ PullEnds(c, Status("warning", "not found"))

\* get() rejects, or the normalizers throw: the catch block
PullFails(c) ==
  /\ task[c].pc = "pull-get"
  /\ UNCHANGED latestRemoteUpdatedAt
  /\ PullEnds(c, Status("error", "failed to pull"))

PullThrows(c) ==
  /\ task[c].pc = "pull-get"
  /\ remote[task[c].code] # Null
  /\ parseTripSyncPayloadThrows(remote[task[c].code])
  /\ UNCHANGED latestRemoteUpdatedAt
  /\ PullEnds(c, Status("error", "failed to pull"))

PullInvalid(c) ==
  /\ task[c].pc = "pull-get"
  /\ remote[task[c].code] # Null
  /\ ~parseTripSyncPayloadThrows(remote[task[c].code])
  /\ \E rnd \in GeneratedIds :
       parseTripSyncPayload(remote[task[c].code], task[c].settings, N(now), rnd) = Null
  /\ UNCHANGED latestRemoteUpdatedAt
  /\ PullEnds(c, Status("error", "invalid trip data"))

PullApply(c) ==
  /\ task[c].pc = "pull-get"
  /\ remote[task[c].code] # Null
  /\ ~parseTripSyncPayloadThrows(remote[task[c].code])
  /\ \E rnd \in GeneratedIds :
       LET parsedPayload ==
             parseTripSyncPayload(remote[task[c].code], task[c].settings, N(now), rnd)
       IN /\ parsedPayload # Null
          /\ destinations' = [destinations EXCEPT ![c] = parsedPayload.destinations]
          /\ settings' = [settings EXCEPT ![c] = parsedPayload.settings]
          /\ latestRemoteUpdatedAt' =
               [latestRemoteUpdatedAt EXCEPT ![c] = parsedPayload.remoteUpdatedAt]
          /\ lastKnownRemoteByCode' = [lastKnownRemoteByCode EXCEPT ![c] =
               WithCode(@, task[c].code,
                        IF parsedPayload.remoteUpdatedAt # Null
                        THEN parsedPayload.remoteUpdatedAt ELSE N(0))]
  /\ syncStatus' = [syncStatus EXCEPT ![c] = Status("success", "pulled")]
  /\ isPulling' = [isPulling EXCEPT ![c] = FALSE]
  /\ task' = [task EXCEPT ![c] = Idle]
  /\ UNCHANGED <<tripCode, lastLocalPushByCode, isPushing, remote, isTripSyncAvailable,
                 now, steps, calcVars, normVars, checkVars, liveVars>>

(***************************************************************************)
(* App: handlePushToTrip                                                   *)
(***************************************************************************)
PushUnavailable(c) ==
  /\ CanStartSync(c)
  /\ ~isTripSyncAvailable
  /\ OnlyStatus(c, Status("error", "sync not configured"))

PushInvalidCode(c) ==
  /\ CanStartSync(c)
  /\ isTripSyncAvailable
  /\ ~hasValidTripCode(c)
  /\ OnlyStatus(c, Status("warning", "code too short"))

\* up to the first await: the handler keeps the code, the document and the
\* last-known-remote map it was rendered with
PushStart(c) ==
  /\ CanStartSync(c)
  /\ isTripSyncAvailable
  /\ hasValidTripCode(c)
  /\ isPushing' = [isPushing EXCEPT ![c] = TRUE]
  /\ task' = [task EXCEPT ![c] =
       [pc |-> "push-get", code |-> tripCode[c], destinations |-> destinations[c],
        settings |-> settings[c],
        knownRemoteUpdatedAt |-> AtCode(lastKnownRemoteByCode[c], tripCode[c])]]
  /\ UNCHANGED <<docVars, tripCode, lastKnownRemoteByCode, lastLocalPushByCode, syncStatus,
                 isPulling, latestRemoteUpdatedAt, remote, isTripSyncAvailable, now, calcVars, normVars, checkVars, liveVars>>

\* remotePayload?.meta?.updatedAt through parseTimestamp
remoteUpdatedAtOf(payload) == parseTimestamp(Get(Get(payload, "meta"), "updatedAt"))

\* mutant: the comparison the other way round
isStale_Reversed(remoteUpdatedAt, knownRemoteUpdatedAt) ==
  remoteUpdatedAt # Null /\ NLt(remoteUpdatedAt, knownRemoteUpdatedAt)

\* remoteUpdatedAt !== null && remoteUpdatedAt > knownRemoteUpdatedAt
isStale(remoteUpdatedAt, knownRemoteUpdatedAt) ==
  remoteUpdatedAt # Null /\ NLt(knownRemoteUpdatedAt, remoteUpdatedAt)

\* the write handlePushToTrip issues at time updatedAt
pushWrite(t, updatedAt, clientId, confirmed) ==
  [pc |-> "push-set", code |-> t.code, updatedAt |-> updatedAt, confirmed |-> confirmed,
   payload |-> tripSyncPayload(t.destinations, t.settings, updatedAt, clientId)]

\* mutant: the finally block is missing, the flag stays set
PushEnds_StaysPushing(c, status) ==
  /\ syncStatus' = [syncStatus EXCEPT ![c] = status]
  /\ task' = [task EXCEPT ![c] = Idle]
  /\ UNCHANGED <<docVars, tripCode, lastKnownRemoteByCode, lastLocalPushByCode, isPulling,
                 isPushing, remote, isTripSyncAvailable, now, steps, calcVars, normVars, checkVars, liveVars>>

\* the end of a push that writes nothing
PushEnds(c, status) ==
  /\ syncStatus' = [syncStatus EXCEPT ![c] = status]
  /\ isPushing' = [isPushing EXCEPT ![c] = FALSE]
  /\ task' = [task EXCEPT ![c] = Idle]
  /\ UNCHANGED <<docVars, tripCode, lastKnownRemoteByCode, lastLocalPushByCode, isPulling,
                 remote, isTripSyncAvailable, now, steps, calcVars, normVars, checkVars, liveVars>>

\* get() resolves: the remote is not newer than last known, the write is issued
PushGetFresh(c) ==
  /\ task[c].pc = "push-get"
  /\ LET remoteUpdatedAt == remoteUpdatedAtOf(remote[task[c].code])
     IN /\ ~isStale(remoteUpdatedAt, task[c].knownRemoteUpdatedAt)
        /\ latestRemoteUpdatedAt' = [latestRemoteUpdatedAt EXCEPT ![c] = remoteUpdatedAt]
  /\ task' = [task EXCEPT ![c] = pushWrite(task[c], N(now), c, FALSE)]
  /\ UNCHANGED <<docVars, tripCode, lastKnownRemoteByCode, lastLocalPushByCode, syncStatus,
                 isPulling, isPushing, remote, isTripSyncAvailable, now, steps, calcVars, normVars, checkVars, liveVars>>

\* get() resolves: the remote is newer, window.confirm opens
PushGetStale(c) ==
  /\ task[c].pc = "push-get"
  /\ LET remoteUpdatedAt == remoteUpdatedAtOf(remote[task[c].code])
     IN /\ isStale(remoteUpdatedAt, task[c].knownRemoteUpdatedAt)
        /\ latestRemoteUpdatedAt' = [latestRemoteUpdatedAt EXCEPT ![c] = remoteUpdatedAt]
  /\ task' = [task EXCEPT ![c].pc = "push-confirm"]
  /\ UNCHANGED <<docVars, tripCode, lastKnownRemoteByCode, lastLocalPushByCode, syncStatus,
                 isPulling, isPushing, remote, isTripSyncAvailable, now, steps, calcVars, normVars, checkVars, liveVars>>

\* the user presses Cancel
PushDeclined(c) ==
  /\ task[c].pc = "push-confirm"
  /\ UNCHANGED latestRemoteUpdatedAt
  /\ PushEnds(c, Status("warning", "push canceled"))

\* the user presses OK, the write is issued
PushConfirmed(c) ==
  /\ task[c].pc = "push-confirm"
  /\ task' = [task EXCEPT ![c] = pushWrite(task[c], N(now), c, TRUE)]
  /\ UNCHANGED <<docVars, tripCode, lastKnownRemoteByCode, lastLocalPushByCode, syncStatus,
                 isPulling, isPushing, latestRemoteUpdatedAt, remote, isTripSyncAvailable,
                 now, steps, calcVars, normVars, checkVars, liveVars>>

\* get() or set() rejects: the catch block
PushFails(c) ==
  /\ task[c].pc \in {"push-get", "push-set"}
  /\ UNCHANGED latestRemoteUpdatedAt
  /\ PushEnds(c, Status("error", "failed to push"))

\* set() resolves: the remote document is replaced
PushSetResolves(c) ==
  /\ task[c].pc = "push-set"
  /\ remote' = [remote EXCEPT ![task[c].code] = task[c].payload]
  /\ lastKnownRemoteByCode' = [lastKnownRemoteByCode EXCEPT ![c] =
                                 WithCode(@, task[c].code, task[c].updatedAt)]
  /\ lastLocalPushByCode' = [lastLocalPushByCode EXCEPT ![c] =
                               WithCode(@, task[c].code, task[c].updatedAt)]
  /\ latestRemoteUpdatedAt' = [latestRemoteUpdatedAt EXCEPT ![c] = task[c].updatedAt]
  /\ syncStatus' = [syncStatus EXCEPT ![c] = Status("success", "pushed")]
  /\ isPushing' = [isPushing EXCEPT ![c] = FALSE]
  /\ task' = [task EXCEPT ![c] = Idle]
  /\ UNCHANGED <<docVars, tripCode, isPulling, isTripSyncAvailable, now, steps, calcVars, normVars, checkVars, liveVars>>

(***************************************************************************)
(* Documents the runs start from and documents found on the remote store   *)
(***************************************************************************)
DEFAULT_SETTINGS == [totalBudget |-> N(5000), peopleCount |-> N(5)]

\* a destination built through the UI: two flights, one stay, one extra cost
SeedDestination ==
  [id |-> "d1", name |-> "City", latitude |-> N(53), longitude |-> N(-6), notes |-> "",
   extraCosts |-> <<[description |-> "visa", value |-> N(50)]>>,
   budgetEstimator |-> [flightAssignments |-> [id \in {"f1", "f2"} |->
                                                 IF id = "f1" THEN N(2) ELSE N(1)],
                        selectedAccommodationId |-> "h1",
                        fixedAttemptId |-> "", attempts |-> <<>>],
   flights |-> <<[id |-> "f1", pricePerPerson |-> N(100)],
                 [id |-> "f2", pricePerPerson |-> N(40)]>>,
   accommodations |-> <<[id |-> "h1", totalPrice |-> N(500)]>>]

SeedSettings == [totalBudget |-> N(1000), peopleCount |-> N(5)]

\* a remote document written by another tool or an older version: a legacy
\* scalar extraCosts, two attempts, references to a flight and a stay that are
\* not in the lists, a people count that is no number
LegacyAttempt(id, flightId) ==
  JObj([id |-> JStr(id), name |-> JStr("Plan"), createdAt |-> JNum(N(1)),
        flightAssignments |-> JObj([x \in {flightId} |-> JNum(N(1))]),
        selectedAccommodationId |-> JStr("h2"),
        totalCost |-> JNum(N(540)), remaining |-> JNum(N(1460)),
        perPersonTotal |-> JNum(N(108))])

LegacyPayload ==
  JObj([destinations |-> JArr(<<
          JObj([id |-> JStr("d1"), name |-> JStr("City"),
                latitude |-> JStr("100"), longitude |-> JNum(N(-6)),
                extraCosts |-> JNum(N(50)),
                budgetEstimator |-> JObj(
                  [flightAssignments |-> JObj([x \in {"f1", "f2"} |-> JNum(N(1))]),
                   selectedAccommodationId |-> JStr("h2"),
                   fixedAttemptId |-> JStr("a2"),
                   attempts |-> JArr(<<LegacyAttempt("a1", "f1"), LegacyAttempt("a2", "f2")>>)]),
                flights |-> JArr(<<JObj([id |-> JStr("f1"), pricePerPerson |-> JStr("100")])>>),
                accommodations |-> JArr(<<JObj([id |-> JStr("h1"),
                                                totalPrice |-> JNum(N(500))])>>)])>>),
        settings |-> JObj([totalBudget |-> JNum(N(2000)), peopleCount |-> JStr("many")]),
        meta |-> JObj([updatedAt |-> JNum(N(1)), updatedBy |-> JStr("legacy")])])

\* a document without meta
NoMetaPayload ==
  JObj([destinations |-> JArr(<<>>),
        settings |-> JObj([totalBudget |-> JNum(N(2000)), peopleCount |-> JNum(N(2))])])

\* not a trip document
BogusPayload == JObj([destinations |-> JArr(<<JObj([bogus |-> JStr("true")])>>)])

\* a document whose extra-cost list holds a null entry
NullCostPayload ==
  JObj([destinations |-> JArr(<<
          JObj([id |-> JStr("d1"), name |-> JStr("City"),
                latitude |-> JNum(N(53)), longitude |-> JNum(N(-6)),
                extraCosts |-> JArr(<<Null>>)])>>),
        meta |-> JObj([updatedAt |-> JNum(N(1))])])

\* a document whose counts are fractions: half a person on flight f1, a
\* people count of one half
FractionPayload ==
  JObj([destinations |-> JArr(<<
          JObj([id |-> JStr("d1"), name |-> JStr("City"),
                latitude |-> JNum(N(53)), longitude |-> JNum(N(-6)),
                budgetEstimator |-> JObj(
                  [flightAssignments |-> JObj([x \in {"f1"} |-> JNum(Num(1, 2))])]),
                flights |-> JArr(<<JObj([id |-> JStr("f1"),
                                         pricePerPerson |-> JNum(N(100))])>>)])>>),
        settings |-> JObj([totalBudget |-> JNum(N(2000)), peopleCount |-> JNum(Num(1, 2))]),
        meta |-> JObj([updatedAt |-> JNum(N(1))])])

\* a document that lists two destinations under one id
DuplicateIdPayload ==
  JObj([destinations |-> JArr(<<
          JObj([id |-> JStr("d1"), name |-> JStr("City"),
                latitude |-> JNum(N(53)), longitude |-> JNum(N(-6))]),
          JObj([id |-> JStr("d1"), name |-> JStr("Town"),
                latitude |-> JNum(N(48)), longitude |-> JNum(N(2))])>>),
        settings |-> JObj([totalBudget |-> JNum(N(2000)), peopleCount |-> JNum(N(2))]),
        meta |-> JObj([updatedAt |-> JNum(N(1))])])

ExternalPayloads ==
  {LegacyPayload, NoMetaPayload, BogusPayload, NullCostPayload, FractionPayload,
   DuplicateIdPayload}

(***************************************************************************)
(* Specifications                                                          *)
(***************************************************************************)
InitApp ==
  /\ tripCode = [c \in Clients |-> <<"A", "B", "C", "D">>]
  /\ lastKnownRemoteByCode = [c \in Clients |-> EmptyMap]
  /\ lastLocalPushByCode = [c \in Clients |-> EmptyMap]
  /\ syncStatus = [c \in Clients |-> Status("neutral", "enter a trip code")]
  /\ isPulling = [c \in Clients |-> FALSE]
  /\ isPushing = [c \in Clients |-> FALSE]
  /\ latestRemoteUpdatedAt = [c \in Clients |-> Null]
  /\ task = [c \in Clients |-> Idle]
  /\ now = 1
  /\ steps = 0
  /\ calcInput = Null
  /\ calcResult = Null
  /\ normInput = Null
  /\ normResult = Null
  /\ lastRemoteCheckAt = [c \in Clients |-> Null]
  /\ remoteChecks = [c \in Clients |-> {}]

\* the manual App on its own: the live-subscription App is not running
InitCommon ==
  /\ InitApp
  /\ live = Null
  /\ liveRemote = Null
  /\ liveEvents = <<>>

\* one browser editing its document; the remote store holds a foreign document
InitDoc ==
  /\ InitCommon
  /\ isTripSyncAvailable = TRUE
  /\ \E seeded \in BOOLEAN :
       /\ destinations = [c \in Clients |->
                            IF seeded /\ c = "c1" THEN <<SeedDestination>> ELSE <<>>]
       /\ settings = [c \in Clients |->
                        IF seeded /\ c = "c1" THEN SeedSettings ELSE DEFAULT_SETTINGS]
  /\ remote \in [TripCodes -> {Null, LegacyPayload, FractionPayload}]

DocEdit(c) ==
  \/ FlightAdd(c) \/ FlightDuplicate(c) \/ FlightRemove(c) \/ FlightEdit(c)
  \/ AccommodationAdd(c) \/ AccommodationDuplicate(c) \/ AccommodationRemove(c)
  \/ AccommodationEdit(c)
  \/ handleAssignmentChange(c) \/ handleSelectedAccommodationChange(c)
  \/ handleExtraCostsChange(c)
  \/ saveBaseline(c) \/ applySavedBaseline(c) \/ replaceSavedWithCurrent(c)
  \/ clearSavedBaseline(c)
  \/ handleTotalBudgetChange(c) \/ handlePeopleCountChange(c)
  \/ handleAddDestination(c) \/ handleRemoveDestination(c)

NextDoc ==
  \/ DocEdit("c1")
  \/ PullStart("c1") \/ PullNotFound("c1") \/ PullApply("c1") \/ PullFails("c1")
  \/ Tick

SpecDoc == InitDoc /\ [][NextDoc]_vars

\* two browsers sharing one trip code; the remote store is empty or holds a
\* foreign document
InitSync ==
  /\ InitCommon
  /\ isTripSyncAvailable \in BOOLEAN
  /\ destinations = [c \in Clients |-> IF c = "c1" THEN <<SeedDestination>> ELSE <<>>]
  /\ settings = [c \in Clients |-> IF c = "c1" THEN SeedSettings ELSE DEFAULT_SETTINGS]
  /\ remote \in [TripCodes -> {Null} \cup ExternalPayloads]

SyncStep(c) ==
  \/ handleTripCodeChange(c)
  \/ PullUnavailable(c) \/ PullInvalidCode(c) \/ PullStart(c)
  \/ PullNotFound(c) \/ PullFails(c) \/ PullThrows(c) \/ PullInvalid(c) \/ PullApply(c)
  \/ PushUnavailable(c) \/ PushInvalidCode(c) \/ PushStart(c)
  \/ PushGetFresh(c) \/ PushGetStale(c) \/ PushDeclined(c) \/ PushConfirmed(c)
  \/ PushFails(c) \/ PushSetResolves(c)

NextSync ==
  \/ \E c \in Clients : SyncStep(c)
  \/ \E c \in Clients :
       checkRemoteUpdatedAt(c) \/ RemoteCheckResolves(c) \/ RemoteCheckRejects(c)
  \/ \E c \in Clients : handlePeopleCountChange(c)
  \/ Tick

SpecSync == InitSync /\ [][NextSync]_vars

\* the awaited get() or set() settles and the confirm dialog is answered: the
\* continuation of a pending handler runs
SyncReturns(c) ==
  \/ PullNotFound(c) \/ PullFails(c) \/ PullThrows(c) \/ PullInvalid(c) \/ PullApply(c)
  \/ PushGetFresh(c) \/ PushGetStale(c) \/ PushDeclined(c) \/ PushConfirmed(c)
  \/ PushFails(c) \/ PushSetResolves(c)

\* SpecSync for operations whose remote calls settle
FairSpecSync == SpecSync /\ \A c \in Clients : WF_vars(SyncReturns(c))

(***************************************************************************)
(* The live-subscription App: one browser on a trip it joins or creates,   *)
(* a peer writing to the same trip.                                        *)
(***************************************************************************)
MaxLiveSteps == 4
MaxLiveEvents == 2

LIVE_TRIP_CODE_LENGTH == 8
LIVE_TRIP_CODE_MIN_LENGTH == 6

\* mutant: the code is not cut to the length of the field
liveNormalizeTripCode_Whole(value) ==
  SelectSeq([i \in DOMAIN value |-> ToUpperCase(value[i])], IsCodeChar)

\* normalizeTripCode of the live App
liveNormalizeTripCode(value) ==
  LET upper == [i \in DOMAIN value |-> ToUpperCase(value[i])]
      kept == SelectSeq(upper, IsCodeChar)
  IN SubSeq(kept, 1, IF Len(kept) < LIVE_TRIP_CODE_LENGTH THEN Len(kept)
                     ELSE LIVE_TRIP_CODE_LENGTH)

\* what the user types into the trip code field of the live App: nothing, a
\* code that is too short, a code longer than the field keeps
LiveTripCodeInputs ==
  {<<>>, <<"a", "b", "-", "c", "d">>,
   <<"a", "b", "c", "d", "-", "a", "b", "c", "d", "1">>}
\* generateTripCode: TRIP_CODE_LENGTH letters of the alphabet
GeneratedTripCodes == {<<"C", "D", "C", "D", "C", "D", "C", "D">>}
\* the paths trips/<code> the live App can address
LiveTripCodes ==
  {code \in {liveNormalizeTripCode(v) : v \in LiveTripCodeInputs} :
     Len(code) >= LIVE_TRIP_CODE_MIN_LENGTH} \cup GeneratedTripCodes

LiveClientId == "me"
NoTrip == [k |-> "none"]
\* a value at trips/<code> whose destinations are not an array
InvalidTrip == [k |-> "invalid"]
TripPayload(dests, sett, updatedAt, updatedBy) ==
  [k |-> "trip", destinations |-> dests, settings |-> sett,
   meta |-> [updatedAt |-> updatedAt, updatedBy |-> updatedBy]]

LiveSeedDestination ==
  [id |-> "d1", name |-> "City", latitude |-> 53, longitude |-> -6,
   flights |-> <<>>, accommodations |-> <<>>]
LiveSettings == [totalBudget |-> 5000, peopleCount |-> 5]
\* the document a peer writes; its people count is not a positive number
PeerSettings == [totalBudget |-> 2000, peopleCount |-> 0]

\* normalizeSettings of the live App, on a settings object with two numbers
liveNormalizeSettings(candidate, fallback) ==
  [totalBudget |-> IF candidate.totalBudget >= 0 THEN candidate.totalBudget
                   ELSE fallback.totalBudget,
   peopleCount |-> IF candidate.peopleCount > 0 THEN candidate.peopleCount
                   ELSE fallback.peopleCount]

\* parseTripPayload: Null (as NoTrip is not handed to it, InvalidTrip stands
\* for the values it rejects); the destinations of the documents here pass
\* its filter
parseTripPayload(payload, fallbackSettings) ==
  IF payload.k # "trip" THEN InvalidTrip
  ELSE TripPayload(payload.destinations,
                   liveNormalizeSettings(payload.settings, fallbackSettings),
                   payload.meta.updatedAt, payload.meta.updatedBy)

NoJoin == [pc |-> "idle"]
NoTimer == [armed |-> FALSE]

\* the push effect, run after a render in which activeTripCode, destinations
\* or settings changed: the timer of the previous run is cleared; a new one
\* is set unless there is no trip, no first snapshot yet, or one push to skip
pushEffect(l) ==
  IF l.activeTripCode = <<>> \/ ~l.hasReceivedInitialSnapshot
  THEN [l EXCEPT !.pushTimer = NoTimer]
  ELSE IF l.skipNextPush
  THEN [l EXCEPT !.skipNextPush = FALSE, !.pushTimer = NoTimer]
  ELSE [l EXCEPT !.pushTimer = [armed |-> TRUE, code |-> l.activeTripCode,
                                destinations |-> l.destinations,
                                settings |-> l.settings]]

\* a local edit of the live App: a user action
LiveEdits(l) ==
  /\ isTripSyncAvailable
  /\ steps < MaxLiveSteps
  /\ steps' = steps + 1
  /\ live' = pushEffect(l)
  /\ UNCHANGED <<docVars, syncVars, remote, isTripSyncAvailable, now, calcVars, normVars,
                 checkVars, liveRemote, liveEvents>>

LivePeopleCounts == {2, 3}
liveHandlePeopleCountChange ==
  \E count \in LivePeopleCounts :
    /\ live.settings.peopleCount # count
    /\ LiveEdits([live EXCEPT !.settings.peopleCount = count])

liveHandleAddDestination ==
  /\ live.destinations = <<>>
  /\ LiveEdits([live EXCEPT !.destinations = <<LiveSeedDestination>>])

liveHandleRemoveDestination ==
  /\ live.destinations # <<>>
  /\ LiveEdits([live EXCEPT !.destinations = <<>>])

liveHandleTripCodeInputChange ==
  \E value \in LiveTripCodeInputs :
    /\ isTripSyncAvailable
    /\ steps < MaxLiveSteps
    /\ steps' = steps + 1
    /\ live' = [live EXCEPT !.tripCodeInput = liveNormalizeTripCode(value)]
    /\ UNCHANGED <<docVars, syncVars, remote, isTripSyncAvailable, now, calcVars, normVars,
                   checkVars, liveRemote, liveEvents>>

LiveOnly == UNCHANGED <<docVars, syncVars, remote, isTripSyncAvailable, now, steps,
                        calcVars, normVars, checkVars>>

\* the Start / Join button is shown without an active trip and is disabled
\* while connecting; a click is a user action
CanJoin ==
  /\ isTripSyncAvailable
  /\ live.activeTripCode = <<>>
  /\ live.syncStatus # "connecting"
  /\ steps < MaxLiveSteps
  /\ steps' = steps + 1
  /\ UNCHANGED <<docVars, syncVars, remote, isTripSyncAvailable, now, calcVars, normVars,
                 checkVars, liveRemote, liveEvents>>

\* candidateCode || generateTripCode()
nextTripCodes(tripCodeInput) ==
  IF liveNormalizeTripCode(tripCodeInput) # <<>>
  THEN {liveNormalizeTripCode(tripCodeInput)} ELSE GeneratedTripCodes

JoinInvalidCode ==
  \E nextTripCode \in nextTripCodes(live.tripCodeInput) :
    /\ CanJoin
    /\ Len(nextTripCode) < LIVE_TRIP_CODE_MIN_LENGTH
    /\ live' = [live EXCEPT !.syncStatus = "error", !.syncMessage = "code too short"]

\* up to the first await: get(trips/<code>) is issued under withTimeout
JoinStart ==
  \E nextTripCode \in nextTripCodes(live.tripCodeInput) :
    /\ CanJoin
    /\ Len(nextTripCode) >= LIVE_TRIP_CODE_MIN_LENGTH
    /\ live' = [live EXCEPT !.syncStatus = "connecting", !.syncMessage = "connecting",
                            !.join = [pc |-> "get", code |-> nextTripCode,
                                      destinations |-> live.destinations,
                                      settings |-> live.settings]]

\* the end of the handler after a trip was joined or created, and the effects
\* of the render that follows: the subscription effect clears
\* hasReceivedInitialSnapshot and subscribes (the first snapshot is
\* queued); the push effect then finds no first snapshot
joined(l, code, message) ==
  pushEffect([l EXCEPT !.hasReceivedInitialSnapshot = FALSE,
                       !.activeTripCode = code, !.tripCodeInput = code,
                       !.syncStatus = "connected", !.syncMessage = message,
                       !.join = NoJoin])

JoinGetExists ==
  /\ live.join.pc = "get"
  /\ liveRemote[live.join.code] # NoTrip
  /\ LET parsedPayload == parseTripPayload(liveRemote[live.join.code], live.join.settings)
     IN IF parsedPayload = InvalidTrip
        THEN /\ live' = [live EXCEPT !.syncStatus = "error",
                                     !.syncMessage = "trip payload is invalid",
                                     !.join = NoJoin]
             /\ UNCHANGED liveEvents
        ELSE /\ live' = joined([live EXCEPT !.skipNextPush = TRUE,
                                            !.destinations = parsedPayload.destinations,
                                            !.settings = parsedPayload.settings],
                               live.join.code, "joined")
             /\ liveEvents' = <<liveRemote[live.join.code]>>
  /\ UNCHANGED liveRemote
  /\ LiveOnly

\* no trip at the path: writeTripSnapshot stamps the write with Date.now()
\* and set() is issued under withTimeout
JoinGetMissing ==
  /\ live.join.pc = "get"
  /\ liveRemote[live.join.code] = NoTrip
  /\ live' = [live EXCEPT !.lastLocalWriteAt = now,
                          !.join = [@ EXCEPT !.pc = "set"] @@ [updatedAt |-> now]]
  /\ UNCHANGED <<liveRemote, liveEvents>>
  /\ LiveOnly

JoinSetResolves ==
  /\ live.join.pc = "set"
  /\ liveRemote' = [liveRemote EXCEPT ![live.join.code] =
                      TripPayload(live.join.destinations, live.join.settings,
                                  live.join.updatedAt, LiveClientId)]
  /\ live' = joined([live EXCEPT !.skipNextPush = TRUE], live.join.code, "created")
  /\ liveEvents' = <<liveRemote'[live.join.code]>>
  /\ LiveOnly

\* mutant: a timeout is reported as any other failure
JoinEndsInError_OneMessage(message) ==
  /\ live.join # NoJoin
  /\ live' = [live EXCEPT !.syncStatus = "error", !.syncMessage = "failed to connect",
                          !.join = NoJoin]
  /\ UNCHANGED <<liveRemote, liveEvents>>
  /\ LiveOnly

\* the catch block of the handler
JoinEndsInError(message) ==
  /\ live.join # NoJoin
  /\ live' = [live EXCEPT !.syncStatus = "error", !.syncMessage = message,
                          !.join = NoJoin]
  /\ UNCHANGED <<liveRemote, liveEvents>>
  /\ LiveOnly

\* get() or set() rejects
JoinFails == JoinEndsInError("failed to connect")

\* the timer of withTimeout fires before get() or set() has settled
JoinTimesOut == JoinEndsInError("connection timed out")

handleLeaveTrip ==
  /\ isTripSyncAvailable
  /\ live.activeTripCode # <<>>
  /\ steps < MaxLiveSteps
  /\ steps' = steps + 1
  /\ live' = pushEffect([live EXCEPT !.activeTripCode = <<>>, !.syncStatus = "idle",
                                     !.syncMessage = "live share is off",
                                     !.hasReceivedInitialSnapshot = FALSE])
  /\ liveEvents' = <<>>
  /\ UNCHANGED <<docVars, syncVars, remote, isTripSyncAvailable, now, calcVars, normVars,
                 checkVars, liveRemote>>

\* the change notifications a write to trips/<code> queues for the browser
notified(events, code, payload) ==
  IF live.activeTripCode = code THEN Append(events, payload) ELSE events

\* the 350 ms timer of the push effect fires: writeTripSnapshot stamps the
\* write with Date.now(); the write reaches the store and its change
\* notification is queued for the subscription
PushTimerFires ==
  /\ live.pushTimer.armed
  /\ Len(liveEvents) < MaxLiveEvents
  /\ LET payload == TripPayload(live.pushTimer.destinations, live.pushTimer.settings,
                                now, LiveClientId)
     IN /\ liveRemote' = [liveRemote EXCEPT ![live.pushTimer.code] = payload]
        /\ liveEvents' = notified(liveEvents, live.pushTimer.code, payload)
  /\ live' = [live EXCEPT !.lastLocalWriteAt = now, !.pushTimer = NoTimer]
  /\ LiveOnly

\* a peer writes its document to the trip
PeerWrites ==
  \E code \in LiveTripCodes, payload \in {InvalidTrip,
                                          TripPayload(<<>>, PeerSettings, now, "peer")} :
    /\ steps < MaxLiveSteps
    /\ steps' = steps + 1
    /\ Len(liveEvents) < MaxLiveEvents
    /\ liveRemote' = [liveRemote EXCEPT ![code] = payload]
    /\ liveEvents' = notified(liveEvents, code, payload)
    /\ UNCHANGED <<docVars, syncVars, remote, isTripSyncAvailable, now, calcVars, normVars,
                   checkVars, live>>

\* mutant: a snapshot this browser wrote is recognised by its author alone
isOwnEcho_ByAuthor(parsedPayload, l) ==
  parsedPayload.meta.updatedBy = LiveClientId

\* the test of the subscription callback for a snapshot of its own last write
isOwnEcho(parsedPayload, l) ==
  /\ parsedPayload.meta.updatedBy = LiveClientId
  /\ parsedPayload.meta.updatedAt # 0
  /\ parsedPayload.meta.updatedAt = l.lastLocalWriteAt

\* the callback of onValue runs on the oldest queued snapshot
SnapshotArrives ==
  /\ liveEvents # <<>>
  /\ liveEvents' = Tail(liveEvents)
  /\ LET snapshot == Head(liveEvents)
         parsedPayload == parseTripPayload(snapshot, live.settings)
         received == [live EXCEPT !.hasReceivedInitialSnapshot = TRUE]
     IN live' =
          IF snapshot = NoTrip THEN received
          ELSE IF parsedPayload = InvalidTrip
          THEN [received EXCEPT !.syncStatus = "error",
                                !.syncMessage = "trip contains invalid data"]
          ELSE IF isOwnEcho(parsedPayload, live) THEN received
          ELSE pushEffect([received EXCEPT !.skipNextPush = TRUE,
                                           !.destinations = parsedPayload.destinations,
                                           !.settings = parsedPayload.settings,
                                           !.syncStatus = "connected",
                                           !.syncMessage = "live sync active"])
  /\ UNCHANGED liveRemote
  /\ LiveOnly

InitLive ==
  /\ InitApp
  /\ isTripSyncAvailable = TRUE
  /\ destinations = [c \in Clients |-> <<>>]
  /\ settings = [c \in Clients |-> DEFAULT_SETTINGS]
  /\ remote = [code \in TripCodes |-> Null]
  /\ live = [destinations |-> <<>>, settings |-> LiveSettings, activeTripCode |-> <<>>,
             tripCodeInput |-> <<>>, syncStatus |-> "idle",
             syncMessage |-> "live share is off", skipNextPush |-> FALSE,
             hasReceivedInitialSnapshot |-> FALSE, lastLocalWriteAt |-> 0,
             join |-> NoJoin, pushTimer |-> NoTimer]
  /\ liveRemote \in [LiveTripCodes -> {NoTrip, InvalidTrip,
                                       TripPayload(<<>>, PeerSettings, 1, "peer")}]
  /\ liveEvents = <<>>

NextLive ==
  \/ liveHandlePeopleCountChange
  \/ liveHandleAddDestination
  \/ liveHandleRemoveDestination
  \/ liveHandleTripCodeInputChange
  \/ JoinInvalidCode
  \/ JoinStart
  \/ JoinGetExists
  \/ JoinGetMissing
  \/ JoinSetResolves
  \/ JoinFails
  \/ JoinTimesOut
  \/ handleLeaveTrip
  \/ PushTimerFires
  \/ PeerWrites
  \/ SnapshotArrives
  \/ Tick

SpecLive == InitLive /\ [][NextLive]_vars

\* SpecLive in which the timer of withTimeout fires unless the call settles
FairSpecLive == SpecLive /\ WF_vars(JoinTimesOut)

(***************************************************************************)
(* The trip code fields of both Apps and the start of the operations they  *)
(* guard: what is typed, a click on Pull, Push or Start / Join.            *)
(***************************************************************************)
\* a code longer than the field of the manual App keeps
LongTripCodeInput ==
  <<"a", "b", "c", "d", "-", "0", "1", "a", "b", "c", "d", "0", "1", "a", "b">>

handleLongTripCodeChange(c) == tripCodeChange(c, LongTripCodeInput)

NextCode ==
  \/ \E c \in Clients : handleTripCodeChange(c) \/ handleLongTripCodeChange(c)
  \/ \E c \in Clients : PullInvalidCode(c) \/ PullStart(c)
  \/ \E c \in Clients : PushInvalidCode(c) \/ PushStart(c)
  \/ liveHandleTripCodeInputChange
  \/ JoinInvalidCode
  \/ JoinStart

SpecCode == InitLive /\ [][NextCode]_vars

(***************************************************************************)
(* The calculator on its own: one call on an input drawn from bounded      *)
(* sets, then calls that change the people count only.                     *)
(***************************************************************************)
MaxCalcListLen == 2

\* sequences of at most n elements of a set
SeqsUpTo(S, n) == UNION {[1..k -> S] : k \in 0..n}

\* two flights share the id f1: find takes the first
CalcFlights == {[id |-> "f1", pricePerPerson |-> N(100)],
                [id |-> "f2", pricePerPerson |-> N(40)],
                [id |-> "f1", pricePerPerson |-> N(40)]}
CalcAccommodations == {[id |-> "h1", totalPrice |-> N(500)],
                       [id |-> "h2", totalPrice |-> N(300)]}
\* f3 and h3 name nothing in any list
CalcAssignmentIds == {"f1", "f2", "f3"}
CalcAssignmentCounts == {N(2), N(3)}
CalcSelections == {"", "h1", "h3"}
CalcExtraCosts == {<<>>, <<[description |-> "visa", value |-> N(50)]>>}
CalcPeopleCounts == {N(5), N(2), N(0), N(-2)}
CalcBudgets == {N(1000)}

CalcInputs ==
  [flights : SeqsUpTo(CalcFlights, MaxCalcListLen),
   accommodations : SeqsUpTo(CalcAccommodations, MaxCalcListLen),
   flightAssignments : UNION {[ids -> CalcAssignmentCounts] : ids \in SUBSET CalcAssignmentIds},
   selectedAccommodationId : CalcSelections,
   extraCosts : CalcExtraCosts,
   settings : [totalBudget : CalcBudgets, peopleCount : CalcPeopleCounts]]

snapshotOf(input) ==
  calculateBudgetSnapshot(input.flights, input.accommodations, input.flightAssignments,
                          input.selectedAccommodationId, input.extraCosts, input.settings)

InitCalc ==
  /\ InitCommon
  /\ isTripSyncAvailable = FALSE
  /\ destinations = [c \in Clients |-> <<>>]
  /\ settings = [c \in Clients |-> DEFAULT_SETTINGS]
  /\ remote = [code \in TripCodes |-> Null]

\* BudgetCalculator renders: one call of the calculator
Calculate ==
  /\ calcInput = Null
  /\ calcInput' \in CalcInputs
  /\ calcResult' = snapshotOf(calcInput')
  /\ UNCHANGED <<docVars, syncVars, remote, isTripSyncAvailable, now, steps, normVars, checkVars, liveVars>>

\* the people count of the settings changes and the component renders again
CalculateWithPeopleCount ==
  \E peopleCount \in CalcPeopleCounts :
    /\ calcInput # Null
    /\ calcInput' = [calcInput EXCEPT !.settings.peopleCount = peopleCount]
    /\ calcResult' = snapshotOf(calcInput')
    /\ UNCHANGED <<docVars, syncVars, remote, isTripSyncAvailable, now, steps, normVars, checkVars, liveVars>>

NextCalc == Calculate \/ CalculateWithPeopleCount

SpecCalc == InitCalc /\ [][NextCalc]_vars

(***************************************************************************)
(* Properties of the calculator                                            *)
(***************************************************************************)
\* the assignment keys that name a flight of the list
presentFlightIds(input) ==
  {id \in DOMAIN input.flightAssignments :
     \E i \in DOMAIN input.flights : input.flights[i].id = id}

\* the price of the first flight of the list with this id
firstPriceOf(input, id) ==
  LET first == CHOOSE i \in DOMAIN input.flights :
                 /\ input.flights[i].id = id
                 /\ \A j \in 1..(i - 1) : input.flights[j].id # id
  IN input.flights[first].pricePerPerson

CalcFormulasHold ==
  calcResult # Null =>
    LET r == calcResult
        peopleCount == calcInput.settings.peopleCount
        divisor == IF NLe(peopleCount, N(1)) THEN N(1) ELSE peopleCount
    IN /\ r.flightCost =
            SumOf([id \in presentFlightIds(calcInput) |->
                     NMul(firstPriceOf(calcInput, id), calcInput.flightAssignments[id])])
       /\ r.totalCost = NAdd(NAdd(r.flightCost, r.accommodationCost), r.extraCostsCost)
       /\ r.remaining = NSub(calcInput.settings.totalBudget, r.totalCost)
       /\ NMul(r.perPersonTotal, divisor) = r.totalCost
       /\ NMul(r.perPersonRemaining, divisor) = r.remaining
       /\ r.isOverAssigned <=> NLt(peopleCount, r.assignedPeopleCount)
       /\ NLe(peopleCount, N(0)) =>
             r.perPersonTotal = r.totalCost /\ r.perPersonRemaining = r.remaining

\* a call that differs from the previous one in the people count only leaves
\* the people assigned and every cost field as they were
PeopleCountOnlyMovesPerPersonFields ==
  (/\ calcResult # Null
   /\ calcInput' = [calcInput EXCEPT !.settings.peopleCount =
                                         calcInput'.settings.peopleCount])
    => /\ calcResult'.assignedPeopleCount = calcResult.assignedPeopleCount
       /\ calcResult'.flightCost = calcResult.flightCost
       /\ calcResult'.accommodationCost = calcResult.accommodationCost
       /\ calcResult'.extraCostsCost = calcResult.extraCostsCost
       /\ calcResult'.totalCost = calcResult.totalCost
       /\ calcResult'.remaining = calcResult.remaining
       /\ calcResult'.isOverAssigned <=>
             NLt(calcInput'.settings.peopleCount, calcResult.assignedPeopleCount)

\* C6: for every bounded input calculateBudgetSnapshot returns flightCost = sum
\* of pricePerPerson x count over the assigned flights, totalCost = flightCost
\* + accommodationCost + extraCostsCost, remaining = totalBudget - totalCost,
\* the two per-person figures = totalCost and remaining divided by
\* max(1, peopleCount), isOverAssigned = (assignedPeopleCount > peopleCount);
\* a people count of 0 or less divides by 1, and a change of the people count
\* alone changes isOverAssigned but neither assignedPeopleCount nor a cost.
C6_SnapshotFormulas ==
  [](CalcFormulasHold) /\ [][PeopleCountOnlyMovesPerPersonFields]_vars

\* C6 witness: the worked example (f1 at 100 x 3 people, stay 500, visa 50,
\* budget 1000) computed for a people count of 0: 850 in total, divided by 1
C6_Witness ==
  /\ calcResult # Null
  /\ calcInput.settings.peopleCount = N(0)
  /\ calcInput.flightAssignments = [id \in {"f1"} |-> N(3)]
  /\ calcResult.flightCost = N(300)
  /\ calcResult.totalCost = N(850)
  /\ calcResult.remaining = N(150)
  /\ calcResult.perPersonTotal = N(850)
  /\ calcResult.isOverAssigned

\* C7: calculateBudgetSnapshot does not fail on a dangling reference: the
\* assignment keys that name no flight of the list add nothing to flightCost
\* and nothing to assignedPeopleCount (both equal what the call returns once
\* those keys are removed), and a selectedAccommodationId that matches no
\* accommodation gives accommodationCost 0.
C7_DanglingReferencesCountZero ==
  calcResult # Null =>
    LET present == presentFlightIds(calcInput)
        pruned == [calcInput EXCEPT !.flightAssignments =
                     [id \in present |-> calcInput.flightAssignments[id]]]
    IN /\ calcResult.assignedPeopleCount =
            SumOf([id \in present |-> calcInput.flightAssignments[id]])
       /\ calcResult.assignedPeopleCount = snapshotOf(pruned).assignedPeopleCount
       /\ calcResult.flightCost = snapshotOf(pruned).flightCost
       /\ (\A i \in DOMAIN calcInput.accommodations :
               calcInput.accommodations[i].id # calcInput.selectedAccommodationId)
            => calcResult.accommodationCost = N(0)

\* C7 witness: a call with an assignment to f3, which is no flight of the
\* list, and the selection h3, which is no accommodation of the list
C7_Witness ==
  /\ calcResult # Null
  /\ calcInput.flights = <<[id |-> "f1", pricePerPerson |-> N(100)]>>
  /\ calcInput.flightAssignments = [id \in {"f1", "f3"} |-> IF id = "f1" THEN N(2) ELSE N(3)]
  /\ calcInput.selectedAccommodationId = "h3"
  /\ Len(calcInput.accommodations) > 0
  /\ calcResult.assignedPeopleCount = N(2)
  /\ calcResult.flightCost = N(200)
  /\ calcResult.accommodationCost = N(0)

(***************************************************************************)
(* Properties of the document                                              *)
(***************************************************************************)
\* every destination of every client
AllDestinations ==
  UNION {{destinations[c][i] : i \in DOMAIN destinations[c]} : c \in Clients}

\* C1: in every reachable state every key of a destination's
\* budgetEstimator.flightAssignments is the id of a flight of that destination.
C1_AssignmentKeysAreFlights ==
  \A d \in AllDestinations :
    \A key \in DOMAIN d.budgetEstimator.flightAssignments :
      \E i \in DOMAIN d.flights : d.flights[i].id = key

\* a map restricted to the ids of a list
restrictedTo(map, list) ==
  [id \in {x \in DOMAIN map : \E i \in DOMAIN list : list[i].id = x} |-> map[id]]

\* the three cached figures of an attempt are the calculator's result for
\* the destination's lists and extra costs, the attempt's own assignments and
\* selection, and the settings
attemptIsSnapshotOf(attempt, d, sett) ==
  LET snapshot == calculateBudgetSnapshot(d.flights, d.accommodations,
                    attempt.flightAssignments, attempt.selectedAccommodationId,
                    d.extraCosts, sett)
  IN /\ attempt.totalCost = snapshot.totalCost
     /\ attempt.remaining = snapshot.remaining
     /\ attempt.perPersonTotal = snapshot.perPersonTotal

\* a step of FlightManager's onChange on a destination of client c
FlightsReplace(c) == FlightAdd(c) \/ FlightDuplicate(c) \/ FlightRemove(c) \/ FlightEdit(c)

\* what a flights-replace step makes of one destination
flightsReplaced(old, new, sett) ==
  /\ new.budgetEstimator.flightAssignments =
       restrictedTo(old.budgetEstimator.flightAssignments, new.flights)
  /\ new.budgetEstimator.selectedAccommodationId = old.budgetEstimator.selectedAccommodationId
  /\ new.accommodations = old.accommodations
  /\ new.extraCosts = old.extraCosts
  /\ Len(new.budgetEstimator.attempts) = Len(old.budgetEstimator.attempts)
  /\ \A k \in DOMAIN old.budgetEstimator.attempts :
       LET before == old.budgetEstimator.attempts[k]
           after == new.budgetEstimator.attempts[k]
       IN /\ after.id = before.id
          /\ after.flightAssignments = restrictedTo(before.flightAssignments, new.flights)
          /\ after.selectedAccommodationId = before.selectedAccommodationId
          /\ attemptIsSnapshotOf(after, new, sett)

FlightsReplaceReconciles ==
  \A c \in Clients :
    FlightsReplace(c) =>
      /\ Len(destinations'[c]) = Len(destinations[c])
      /\ \E i \in DOMAIN destinations[c] :
           /\ flightsReplaced(destinations[c][i], destinations'[c][i], settings[c])
           /\ \A j \in DOMAIN destinations[c] \ {i} : destinations'[c][j] = destinations[c][j]

\* C2: when the flights of a destination are replaced by F', the live
\* flightAssignments become the old map restricted to the ids of F' with the
\* surviving counts unchanged, the saved attempt's flightAssignments are
\* restricted the same way, and the attempt's totalCost, remaining and
\* perPersonTotal become the calculator's result for the new flights, the
\* current accommodations, the attempt's filtered assignments and its
\* selectedAccommodationId.
C2_FlightsReplacePrunes == [][FlightsReplaceReconciles]_vars

\* C2 witness: the seeded destination ({f1: 2, f2: 1}, stay h1, visa 50) with a
\* baseline saved at 790, after f2 was removed: the live map and the
\* attempt's map are {f1: 2} and the attempt is recomputed to 750
C2_Witness ==
  \E d \in AllDestinations :
    /\ idsOf(d.flights) = {"f1"}
    /\ d.budgetEstimator.flightAssignments = [id \in {"f1"} |-> N(2)]
    /\ Len(d.budgetEstimator.attempts) = 1
    /\ d.budgetEstimator.attempts[1].flightAssignments = [id \in {"f1"} |-> N(2)]
    /\ d.budgetEstimator.attempts[1].selectedAccommodationId = "h1"
    /\ d.budgetEstimator.attempts[1].totalCost = N(750)

\* C3: in every reachable state a destination's budgetEstimator.attempts has
\* at most one element and fixedAttemptId is '' or the id of attempts[0].
C3_SingleAttemptSlot ==
  \A d \in AllDestinations :
    /\ Len(d.budgetEstimator.attempts) <= 1
    /\ \/ d.budgetEstimator.fixedAttemptId = ""
       \/ /\ Len(d.budgetEstimator.attempts) = 1
          /\ d.budgetEstimator.fixedAttemptId = d.budgetEstimator.attempts[1].id

\* C3 witness: the pulled legacy document, whose two attempts a1 and a2 with
\* fixedAttemptId a2 are collapsed to a2
C3_Witness ==
  \E d \in AllDestinations :
    /\ Len(d.budgetEstimator.attempts) = 1
    /\ d.budgetEstimator.attempts[1].id = "a2"
    /\ d.budgetEstimator.fixedAttemptId = "a2"

\* C4: in every reachable state a destination's selectedAccommodationId is ''
\* or the id of an accommodation of that destination.
C4_SelectionIsAccommodation ==
  \A d \in AllDestinations :
    \/ d.budgetEstimator.selectedAccommodationId = ""
    \/ \E i \in DOMAIN d.accommodations :
         d.accommodations[i].id = d.budgetEstimator.selectedAccommodationId

\* a step of AccommodationManager's onChange on a destination of client c
AccommodationsReplace(c) ==
  \/ AccommodationAdd(c) \/ AccommodationDuplicate(c)
  \/ AccommodationRemove(c) \/ AccommodationEdit(c)

\* the selection after the list became this one
keptOrReset(selection, list) ==
  IF selection \in idsOf(list) THEN selection ELSE ""

\* what an accommodations-replace step makes of one destination
accommodationsReplaced(old, new, sett) ==
  /\ new.budgetEstimator.selectedAccommodationId =
       keptOrReset(old.budgetEstimator.selectedAccommodationId, new.accommodations)
  /\ new.budgetEstimator.flightAssignments = old.budgetEstimator.flightAssignments
  /\ new.flights = old.flights
  /\ new.extraCosts = old.extraCosts
  /\ Len(new.budgetEstimator.attempts) = Len(old.budgetEstimator.attempts)
  /\ \A k \in DOMAIN old.budgetEstimator.attempts :
       LET before == old.budgetEstimator.attempts[k]
           after == new.budgetEstimator.attempts[k]
       IN /\ after.id = before.id
          /\ after.selectedAccommodationId =
               keptOrReset(before.selectedAccommodationId, new.accommodations)
          /\ after.flightAssignments = before.flightAssignments
          /\ attemptIsSnapshotOf(after, new, sett)

AccommodationsReplaceReconciles ==
  \A c \in Clients :
    AccommodationsReplace(c) =>
      /\ Len(destinations'[c]) = Len(destinations[c])
      /\ \E i \in DOMAIN destinations[c] :
           /\ accommodationsReplaced(destinations[c][i], destinations'[c][i], settings[c])
           /\ \A j \in DOMAIN destinations[c] \ {i} : destinations'[c][j] = destinations[c][j]

\* C5: when the accommodations of a destination are replaced by A', the live
\* selectedAccommodationId is reset to '' if and only if it is not in A', the
\* saved attempt's selectedAccommodationId is treated the same way, and the
\* attempt's totalCost, remaining and perPersonTotal are the calculator's
\* result for the new accommodations and the attempt's selection after that.
C5_AccommodationsReplaceResets == [][AccommodationsReplaceReconciles]_vars

\* C5 witness: the seeded destination with a baseline saved on stay h1, after
\* h1 was removed: both selections are '' and the attempt is recomputed to
\* 200 + 40 + 50 = 290
C5_Witness ==
  \E d \in AllDestinations :
    /\ d.accommodations = <<>>
    /\ d.budgetEstimator.selectedAccommodationId = ""
    /\ Len(d.budgetEstimator.attempts) = 1
    /\ d.budgetEstimator.attempts[1].selectedAccommodationId = ""
    /\ d.budgetEstimator.attempts[1].flightAssignments = SeedDestination.budgetEstimator.flightAssignments
    /\ d.budgetEstimator.attempts[1].totalCost = N(290)

(***************************************************************************)
(* Properties of the manual sync                                           *)
(***************************************************************************)
\* meta.updatedAt of the document at the code, as stored
storedUpdatedAt(code) == Get(Get(remote[code], "meta"), "updatedAt")

\* the remote document at the code carries a timestamp greater than the
\* last-known-remote value client c holds for the code
remoteIsNewer(c, code) ==
  /\ storedUpdatedAt(code).k = "number"
  /\ NLt(AtCode(lastKnownRemoteByCode[c], code), storedUpdatedAt(code).v)

\* the read of a push of client c returns in this step
PushReads(c) == task[c].pc = "push-get" /\ task'[c].pc \in {"push-confirm", "push-set"}

\* the confirm dialog of client c is answered in this step
PushAnswered(c) == task[c].pc = "push-confirm" /\ task'[c] # task[c]

StalePushAsksAndDeclineKeeps ==
  \A c \in Clients :
    /\ (PushReads(c) /\ remoteIsNewer(c, task[c].code))
         => task'[c].pc = "push-confirm" /\ remote' = remote
    /\ PushAnswered(c) =>
         /\ remote' = remote
         /\ \/ task'[c].pc = "push-set" /\ task'[c].confirmed
            \/ /\ task'[c] = Idle
               /\ destinations'[c] = destinations[c]
               /\ settings'[c] = settings[c]
               /\ lastKnownRemoteByCode'[c] = lastKnownRemoteByCode[c]
               /\ lastLocalPushByCode'[c] = lastLocalPushByCode[c]

\* C8: when Push reads a remote document whose meta.updatedAt is greater than
\* the client's last-known-remote value for the code, nothing is written
\* before the user answers the confirmation; when the user declines, the
\* remote document, the local document, the last-known-remote marker and the
\* last-local-push marker are what they were.
C8_StalePushNeedsConfirm == [][StalePushAsksAndDeclineKeeps]_vars

\* C8 witness: a client that declined the override of the foreign document
\* (updatedAt 1, last known 0): the document is still on the remote store and
\* the client has neither marker
C8_Witness ==
  \E c \in Clients, code \in TripCodes :
    /\ syncStatus[c] = Status("warning", "push canceled")
    /\ task[c] = Idle
    /\ remote[code] = LegacyPayload
    /\ remoteIsNewer(c, code)
    /\ code \notin DOMAIN lastKnownRemoteByCode[c]
    /\ code \notin DOMAIN lastLocalPushByCode[c]

\* the write of a push of client c lands in this step
PushWrites(c) ==
  /\ task[c].pc = "push-set"
  /\ task'[c] = Idle
  /\ syncStatus'[c] = Status("success", "pushed")

WritesOverNewerAreConfirmed ==
  \A c \in Clients :
    (PushWrites(c) /\ remoteIsNewer(c, task[c].code)) => task[c].confirmed

\* C9: with two clients pushing to one trip code, in every interleaving of
\* their reads and writes, a write replaces a remote document whose
\* meta.updatedAt is greater than the writer's last-known-remote value only
\* when the writer's user confirmed the override.
C9_NoSilentOverwrite == [][WritesOverNewerAreConfirmed]_vars

\* a pull of client c applies a document in this step
PullSucceeds(c) ==
  /\ task[c].pc = "pull-get"
  /\ task'[c] = Idle
  /\ syncStatus'[c] = Status("success", "pulled")

\* the destinations the full payload normalizer makes of a document
normalizedDestinationsOf(payload, at) ==
  LET accepted == SelectSeq(Get(payload, "destinations").a,
                            LAMBDA e : IsDestinationCandidate(e))
  IN [i \in DOMAIN accepted |-> normalizeDestinationCandidate(accepted[i], at, "gen")]

PullAppliesNormalizedDocument ==
  \A c \in Clients :
    PullSucceeds(c) =>
      LET payload == remote[task[c].code]
          totalBudget == Get(Get(payload, "settings"), "totalBudget")
          peopleCount == Get(Get(payload, "settings"), "peopleCount")
          updatedAt == Get(Get(payload, "meta"), "updatedAt")
      IN /\ destinations'[c] = normalizedDestinationsOf(payload, N(now))
         /\ settings'[c].totalBudget =
              IF totalBudget.k = "number" /\ NLe(N(0), totalBudget.v)
              THEN totalBudget.v ELSE task[c].settings.totalBudget
         /\ settings'[c].peopleCount =
              IF peopleCount.k = "number" /\ NLt(N(0), peopleCount.v)
              THEN NFloor(peopleCount.v) ELSE task[c].settings.peopleCount
         /\ lastKnownRemoteByCode'[c] =
              WithCode(lastKnownRemoteByCode[c], task[c].code,
                       IF updatedAt.k = "number" /\ NLt(N(0), updatedAt.v)
                       THEN updatedAt.v ELSE N(0))

PullFallbacks == {DEFAULT_SETTINGS, [totalBudget |-> N(0), peopleCount |-> N(1)]}

PullKeepsNothingLocal ==
  \A c \in Clients :
    PullSucceeds(c) =>
      LET payload == remote[task[c].code]
      IN /\ destinations'[c] = normalizedDestinationsOf(payload, N(now))
         /\ \A fallback \in PullFallbacks :
              settings'[c] = normalizeSettings(Get(payload, "settings"), fallback)
         /\ JNum(AtCode(lastKnownRemoteByCode'[c], task[c].code)) =
              Get(Get(payload, "meta"), "updatedAt")

PullEndsWithoutSuccess(c) ==
  \/ PullUnavailable(c)
  \/ PullInvalidCode(c)
  \/ /\ task[c].pc = "pull-get"
     /\ task'[c] = Idle
     /\ syncStatus'[c].kind # "success"

\* the status a pull that did not succeed reports
PullFailureStatuses ==
  {Status("error", "sync not configured"), Status("warning", "code too short"),
   Status("warning", "not found"), Status("error", "invalid trip data"),
   Status("error", "failed to pull")}

FailedPullKeepsLocalState ==
  \A c \in Clients :
    PullEndsWithoutSuccess(c) =>
      /\ destinations'[c] = destinations[c]
      /\ settings'[c] = settings[c]
      /\ lastKnownRemoteByCode'[c] = lastKnownRemoteByCode[c]
      /\ lastLocalPushByCode'[c] = lastLocalPushByCode[c]
      /\ tripCode'[c] = tripCode[c]
      /\ remote' = remote
      /\ syncStatus'[c] \in PullFailureStatuses

Returned(v) == [k |-> "returned", v |-> v]
Thrown == [k |-> "thrown"]

MaxNormListLen == 2

\* elements of a stored flight list: two well-formed flights (one with its
\* price as a string), a flight without a price, with a negative price, with a
\* price that is no number, with a blank id, without an id, null and a string
NormFlightElements ==
  {JObj([id |-> JStr("f1"), pricePerPerson |-> JNum(N(100))]),
   JObj([id |-> JStr("f2"), pricePerPerson |-> JStr("40")]),
   JObj([id |-> JStr("f1")]),
   JObj([id |-> JStr("f2"), pricePerPerson |-> JNum(N(-5))]),
   JObj([id |-> JStr("f1"), pricePerPerson |-> JStr("abc")]),
   JObj([id |-> JStr(" "), pricePerPerson |-> JNum(N(100))]),
   JObj([pricePerPerson |-> JNum(N(100))]),
   Null,
   JStr("f1")}

NormAccommodationElements ==
  {JObj([id |-> JStr("h1"), totalPrice |-> JNum(N(500))]),
   JObj([id |-> JStr("h2"), totalPrice |-> JStr("100")]),
   JObj([id |-> JStr("h1")]),
   JObj([id |-> JStr("h2"), totalPrice |-> JNum(N(-5))]),
   JObj([totalPrice |-> JNum(N(500))]),
   Null}

\* what may be stored where a list is expected
ListInputs(elements) ==
  {JUndefined, JStr("none")} \cup {JArr(a) : a \in SeqsUpTo(elements, MaxNormListLen)}

NormExtraCostElements ==
  {JObj([description |-> JStr("visa"), value |-> JNum(N(50))]),
   JObj([description |-> JStr("visa"), value |-> JNum(N(-5))]),
   JObj([description |-> JStr(" "), value |-> JNum(N(0))]),
   JStr("visa"),
   Null}

ExtraCostsInputs == {JNum(N(50)), JNum(N(0))} \cup ListInputs(NormExtraCostElements)

FlightAssignmentsInputs ==
  {JUndefined, Null, JArr(<<JNum(N(1))>>),
   JObj([x \in {"f1"} |-> JNum(N(2))]),
   JObj([x \in {"f1", "f2"} |-> IF x = "f1" THEN JNum(N(0)) ELSE JNum(Num(1, 2))]),
   JObj([x \in {"f1", "f2"} |-> IF x = "f1" THEN JNum(N(-1)) ELSE JStr("2")])}

\* an attempt without an id: the normalizer generates one
UnnamedAttempt == JObj([name |-> JStr("Plan")])

NormAttemptElements == {LegacyAttempt("a1", "f1"), LegacyAttempt("a2", "f2"), UnnamedAttempt, Null}

\* one attempt more than the normalizer keeps; the last one is a2
ManyAttempts ==
  [i \in 1..(AttemptSliceLimit + 1) |->
     IF i = AttemptSliceLimit + 1 THEN LegacyAttempt("a2", "f2") ELSE LegacyAttempt("a1", "f1")]

AttemptsInputs == ListInputs(NormAttemptElements) \cup {JArr(ManyAttempts)}

FixedAttemptIdInputs == {JStr("a2"), JStr("a9"), JStr(""), JUndefined}

EstimatorInputs ==
  {JUndefined, Null, JNum(N(1))} \cup
  {JObj([flightAssignments |-> fa, selectedAccommodationId |-> JStr("h1"),
         fixedAttemptId |-> fixed, attempts |-> attempts]) :
     fa \in {JUndefined, JObj([x \in {"f1"} |-> JNum(N(2))])},
     fixed \in FixedAttemptIdInputs,
     attempts \in AttemptsInputs}

SettingsInputs ==
  {JUndefined, Null,
   JObj([totalBudget |-> JNum(N(2000)), peopleCount |-> JNum(N(2))]),
   JObj([totalBudget |-> JNum(N(2000)), peopleCount |-> JNum(Num(1, 2))]),
   JObj([totalBudget |-> JNum(N(-5)), peopleCount |-> JStr("many")]),
   JObj([totalBudget |-> JNum(Num(1, 2)), peopleCount |-> JNum(Num(5, 2))])}

NormFallbacks == {DEFAULT_SETTINGS, SeedSettings}

\* a candidate without a latitude
NoLatitudeCandidate ==
  JObj([id |-> JStr("d2"), name |-> JStr("Town"), longitude |-> JNum(N(-6))])

\* elements of a stored destinations array: the destinations of the foreign
\* documents, and values the candidate normalizer rejects
NormCandidates ==
  {Get(LegacyPayload, "destinations").a[1],
   Get(FractionPayload, "destinations").a[1],
   Get(NullCostPayload, "destinations").a[1],
   Get(BogusPayload, "destinations").a[1],
   NoLatitudeCandidate,
   Null}

PayloadInputs ==
  {Null, JStr("trip"), JArr(<<>>)} \cup
  {JObj([destinations |-> d, settings |-> s, meta |-> JObj([updatedAt |-> JNum(N(1))])]) :
     d \in ListInputs(NormCandidates), s \in SettingsInputs}

\* the result of parseTripSyncPayload as a document on the remote store
asPayload(parsed) ==
  JObj([destinations |-> JArr([i \in DOMAIN parsed.destinations |->
                                 destinationToJson(parsed.destinations[i])]),
        settings |-> JObj([totalBudget |-> JNum(parsed.settings.totalBudget),
                           peopleCount |-> JNum(parsed.settings.peopleCount)]),
        meta |-> JObj([updatedAt |-> IF parsed.remoteUpdatedAt = Null THEN JUndefined
                                     ELSE JNum(parsed.remoteUpdatedAt)])])

InitNorm ==
  /\ InitCommon
  /\ isTripSyncAvailable = FALSE
  /\ destinations = [c \in Clients |-> <<>>]
  /\ settings = [c \in Clients |-> DEFAULT_SETTINGS]
  /\ remote = [code \in TripCodes |-> Null]

\* one call: the normalizer fn is handed value (and fallback); the outcome is
\* a value returned or an exception
NormCall(fn, value, fallback, previous, outcome) ==
  /\ normInput' = [fn |-> fn, value |-> value, fallback |-> fallback, previous |-> previous]
  /\ normResult' = outcome
  /\ UNCHANGED <<docVars, syncVars, remote, isTripSyncAvailable, now, steps, calcVars, checkVars, liveVars>>

CallNormalizeExtraCosts ==
  \E j \in ExtraCostsInputs :
    /\ normInput = Null
    /\ NormCall("normalizeExtraCosts", j, Null, Null,
                IF normalizeExtraCostsThrows(j) THEN Thrown
                ELSE Returned(normalizeExtraCosts(j)))

CallNormalizeFlightAssignments ==
  \E j \in FlightAssignmentsInputs :
    /\ normInput = Null
    /\ NormCall("normalizeFlightAssignments", j, Null, Null,
                Returned(normalizeFlightAssignments(j)))

CallNormalizeBudgetEstimator ==
  \E j \in EstimatorInputs, rnd \in GeneratedIds :
    /\ normInput = Null
    /\ NormCall("normalizeBudgetEstimator", j, Null, Null,
                Returned(normalizeBudgetEstimator(j, N(now), rnd)))

CallNormalizeFlightList ==
  \E j \in ListInputs(NormFlightElements) :
    /\ normInput = Null
    /\ NormCall("normalizeFlightList", j, Null, Null, Returned(normalizeFlightList(j)))

CallNormalizeAccommodationList ==
  \E j \in ListInputs(NormAccommodationElements) :
    /\ normInput = Null
    /\ NormCall("normalizeAccommodationList", j, Null, Null,
                Returned(normalizeAccommodationList(j)))

CallNormalizeDestinationCandidate ==
  \E j \in NormCandidates \cup {JStr("d1")}, rnd \in GeneratedIds :
    /\ normInput = Null
    /\ NormCall("normalizeDestinationCandidate", j, Null, Null,
                IF normalizeDestinationCandidateThrows(j) THEN Thrown
                ELSE Returned(normalizeDestinationCandidate(j, N(now), rnd)))

CallNormalizeSettings ==
  \E j \in SettingsInputs, fallback \in NormFallbacks :
    /\ normInput = Null
    /\ NormCall("normalizeSettings", j, fallback, Null,
                Returned(normalizeSettings(j, fallback)))

CallParseTripSyncPayload ==
  \E payload \in PayloadInputs, fallback \in NormFallbacks, rnd \in GeneratedIds :
    /\ normInput = Null
    /\ NormCall("parseTripSyncPayload", payload, fallback, Null,
                IF parseTripSyncPayloadThrows(payload) THEN Thrown
                ELSE Returned(parseTripSyncPayload(payload, fallback, N(now), rnd)))

\* the accepted document is stored and parsed again, with any fallback
ParseAgain ==
  \E fallback \in NormFallbacks, rnd \in GeneratedIds :
    /\ normInput # Null
    /\ normInput.fn = "parseTripSyncPayload"
    /\ normInput.previous = Null
    /\ normResult.k = "returned"
    /\ normResult.v # Null
    /\ NormCall("parseTripSyncPayload", asPayload(normResult.v), fallback, normResult.v,
                Returned(parseTripSyncPayload(asPayload(normResult.v), fallback, N(now), rnd)))

NextNorm ==
  \/ CallNormalizeExtraCosts
  \/ CallNormalizeFlightAssignments
  \/ CallNormalizeBudgetEstimator
  \/ CallNormalizeFlightList
  \/ CallNormalizeAccommodationList
  \/ CallNormalizeDestinationCandidate
  \/ CallNormalizeSettings
  \/ CallParseTripSyncPayload
  \/ ParseAgain

SpecNorm == InitNorm /\ [][NextNorm]_vars

(***************************************************************************)
(* Properties of the normalizers                                           *)
(***************************************************************************)
\* the call recorded in normInput is a call of this normalizer
Called(fn) == normInput # Null /\ normInput.fn = fn

\* C12: parseTripSyncPayload returns null when destinations is not an array
\* and when destinations is a non-empty array of which every element is
\* rejected by the candidate normalizer; a document it accepts for a
\* non-empty array has at least one destination.
C12_RejectsAllInvalidDestinations ==
  Called("parseTripSyncPayload") =>
    LET raw == Get(normInput.value, "destinations")
    IN /\ raw.k # "array" => normResult = Returned(Null)
       /\ (/\ raw.k = "array"
           /\ Len(raw.a) > 0
           /\ \A i \in DOMAIN raw.a : ~IsDestinationCandidate(raw.a[i]))
            => normResult = Returned(Null)
       /\ (raw.k = "array" /\ Len(raw.a) > 0 /\ normResult \notin {Thrown, Returned(Null)})
            => Len(normResult.v.destinations) > 0

\* C12 witness: the payload with destinations [{bogus: 'true'}] was rejected
C12_Witness ==
  /\ Called("parseTripSyncPayload")
  /\ Get(normInput.value, "destinations") = Get(BogusPayload, "destinations")
  /\ Get(normInput.value, "settings") # JUndefined
  /\ normResult = Returned(Null)

\* C13: parseTripSyncPayload applied to its own output (stored as a document)
\* returns a value equal to that output, for every input it accepts and
\* with any fallback settings.
C13_NormalizationIsIdempotent ==
  (normInput # Null /\ normInput.previous # Null) =>
    normResult = Returned(normInput.previous)

\* the attempts of a stored estimator: the objects of its attempts array
storedAttempts(j) ==
  IF Get(j, "attempts").k = "array"
  THEN SelectSeq(Get(j, "attempts").a, LAMBDA e : IsPlainObject(e))
  ELSE <<>>

\* the attempt the normalizer makes of one stored attempt
normalizedAttempt(t, at) == normalizeBudgetAttempts(JArr(<<t>>), at, "gen")[1]

\* the estimator keeps the attempt named by the stored fixedAttemptId when the
\* given stored attempts hold one, the first stored attempt otherwise
keepsPreferredOf(stored, j, result, at) ==
  /\ Len(result.attempts) = 1
  /\ result.fixedAttemptId = result.attempts[1].id
  /\ IF /\ IsString(Get(j, "fixedAttemptId"))
        /\ \E i \in DOMAIN stored : Get(stored[i], "id") = Get(j, "fixedAttemptId")
     THEN JStr(result.attempts[1].id) = Get(j, "fixedAttemptId")
     ELSE result.attempts[1] = normalizedAttempt(stored[1], at)

\* C14: normalizeBudgetEstimator on an estimator with two or more attempts
\* returns exactly one attempt: the one whose id is the stored fixedAttemptId
\* when the list holds such an attempt anywhere, the first attempt otherwise;
\* the returned fixedAttemptId is the id of that attempt, and '' when no
\* attempt is returned.
C14_KeepsPreferredAttempt ==
  Called("normalizeBudgetEstimator") =>
    /\ Len(storedAttempts(normInput.value)) >= 2 =>
         keepsPreferredOf(storedAttempts(normInput.value), normInput.value,
                          normResult.v, N(now))
    /\ normResult.v.attempts = <<>> => normResult.v.fixedAttemptId = ""

\* an element the list normalizers are to keep: an object with a non-empty
\* string id whose price coerces to a finite number that is not negative
hasPrice(e, priceKey) ==
  /\ IsPlainObject(e)
  /\ IsString(Get(e, "id")) /\ Trim(Get(e, "id").s) # ""
  /\ parseNumberValue(Get(e, priceKey)) # Null
  /\ NLe(N(0), parseNumberValue(Get(e, priceKey)))

\* the ids and prices of the elements of a stored list that have a price
pricedRecords(j, priceKey) ==
  IF j.k # "array" THEN <<>>
  ELSE LET kept == SelectSeq(j.a, LAMBDA e : hasPrice(e, priceKey))
       IN [i \in DOMAIN kept |->
             <<Get(kept[i], "id").s, parseNumberValue(Get(kept[i], priceKey))>>]

\* C15: normalizeFlightList and normalizeAccommodationList return exactly the
\* elements that are objects with a non-empty string id and a price that
\* coerces to a finite number >= 0, each with that price; every other element
\* is dropped and no returned price is a substituted default.
C15_ListsDropUnpricedRecords ==
  /\ Called("normalizeFlightList") =>
       [i \in DOMAIN normResult.v |-> <<normResult.v[i].id, normResult.v[i].pricePerPerson>>]
         = pricedRecords(normInput.value, "pricePerPerson")
  /\ Called("normalizeAccommodationList") =>
       [i \in DOMAIN normResult.v |-> <<normResult.v[i].id, normResult.v[i].totalPrice>>]
         = pricedRecords(normInput.value, "totalPrice")

\* C16: no call of a normalizer raises an exception, whatever it is handed.
C16_NormalizersNeverThrow == normResult # Thrown

(***************************************************************************)
(* Properties of the settings and of the saved baseline                    *)
(***************************************************************************)
\* C17: in every state reached from valid settings by total-budget edits,
\* people-count edits and Pulls, settings.totalBudget is a number >= 0 and
\* settings.peopleCount is an integer >= 1.
C17_SettingsStayValid ==
  \A c \in Clients :
    /\ NLe(N(0), settings[c].totalBudget)
    /\ settings[c].peopleCount.d = 1
    /\ settings[c].peopleCount.n >= 1

\* a step of one of the live edits of client c: an assignment, the
\* accommodation selection, the extra costs, the total budget, the people count
LiveEdit(c) ==
  \/ handleAssignmentChange(c)
  \/ handleSelectedAccommodationChange(c)
  \/ handleExtraCostsChange(c)
  \/ handleTotalBudgetChange(c)
  \/ handlePeopleCountChange(c)

LiveEditsKeepAttempt ==
  \A c \in Clients :
    LiveEdit(c) =>
      /\ Len(destinations'[c]) = Len(destinations[c])
      /\ \A i \in DOMAIN destinations[c] :
           /\ destinations'[c][i].budgetEstimator.attempts =
                destinations[c][i].budgetEstimator.attempts
           /\ destinations'[c][i].budgetEstimator.fixedAttemptId =
                destinations[c][i].budgetEstimator.fixedAttemptId

costFields(attempt) == <<attempt.totalCost, attempt.remaining, attempt.perPersonTotal>>

\* after the step a destination of client c has a saved attempt whose cost
\* fields are not those of an attempt it had before
AttemptCostsChange(c) ==
  \E i \in DOMAIN destinations[c] \cap DOMAIN destinations'[c] :
    /\ destinations'[c][i].id = destinations[c][i].id
    /\ destinations'[c][i].budgetEstimator.attempts # <<>>
    /\ \/ destinations[c][i].budgetEstimator.attempts = <<>>
       \/ costFields(destinations'[c][i].budgetEstimator.attempts[1]) #
            costFields(destinations[c][i].budgetEstimator.attempts[1])

CostsChangeOnlyBySaveOrReplace ==
  \A c \in Clients :
    (DocEdit(c) /\ AttemptCostsChange(c)) =>
      \/ saveBaseline(c)
      \/ replaceSavedWithCurrent(c)
      \/ FlightsReplace(c)
      \/ AccommodationsReplace(c)

\* C18: a saved attempt is frozen against live edits: an edit of the live
\* flight assignments, of the live accommodation selection, of the extra
\* costs, of the total budget or of the people count leaves the attempts and
\* fixedAttemptId of every destination as they were; among the edits of the
\* document the cost fields of an attempt are set only by a save, an
\* override with the current selection, or a flights or accommodations
\* replace.
C18_AttemptFrozenAgainstLiveEdits ==
  [][LiveEditsKeepAttempt /\ CostsChangeOnlyBySaveOrReplace]_vars

\* C18 witness: the baseline saved on the seeded destination (790 in total,
\* 210 remaining, 158 per person for 5 people) is still that after the live
\* assignments were changed and the people count was set to 2
C18_Witness ==
  \E c \in Clients : \E d \in Listed(c) :
    /\ Len(d.budgetEstimator.attempts) = 1
    /\ costFields(d.budgetEstimator.attempts[1]) = <<N(790), N(210), N(158)>>
    /\ d.budgetEstimator.attempts[1].flightAssignments # d.budgetEstimator.flightAssignments
    /\ settings[c].peopleCount = N(2)
    /\ liveSnapshot(d, settings[c]).totalCost # N(790)

\* what a call of saveBaseline makes of one destination
baselineSaved(old, new, sett) ==
  IF old.budgetEstimator.attempts = <<>>
  THEN /\ Len(new.budgetEstimator.attempts) = 1
       /\ new.budgetEstimator.attempts[1].flightAssignments =
            old.budgetEstimator.flightAssignments
       /\ new.budgetEstimator.attempts[1].selectedAccommodationId =
            old.budgetEstimator.selectedAccommodationId
       /\ costFields(new.budgetEstimator.attempts[1]) =
            <<liveSnapshot(old, sett).totalCost, liveSnapshot(old, sett).remaining,
              liveSnapshot(old, sett).perPersonTotal>>
       /\ new.budgetEstimator.attempts[1].id # ""
       /\ new.budgetEstimator.fixedAttemptId = new.budgetEstimator.attempts[1].id
       /\ [new EXCEPT !.budgetEstimator.attempts = <<>>,
                      !.budgetEstimator.fixedAttemptId = old.budgetEstimator.fixedAttemptId]
            = old
  ELSE new = old

SaveBaselineOnlyFromEmpty ==
  \A c \in Clients :
    saveBaseline(c) =>
      /\ Len(destinations'[c]) = Len(destinations[c])
      /\ \E i \in DOMAIN destinations[c] :
           /\ baselineSaved(destinations[c][i], destinations'[c][i], settings[c])
           /\ \A j \in DOMAIN destinations[c] \ {i} : destinations'[c][j] = destinations[c][j]

\* C19: saveBaseline takes effect only from the empty slot: from there it
\* creates one attempt holding the live flightAssignments, the live
\* selectedAccommodationId and the totalCost, remaining and perPersonTotal of
\* the current snapshot, with fixedAttemptId set to its id, and changes
\* nothing else of the destination; with an attempt already saved it leaves
\* the whole budget estimator as it was.
C19_SaveOnlyFromEmpty == [][SaveBaselineOnlyFromEmpty]_vars

\* C19 witness: the baseline saved on the seeded destination: the attempt
\* holds {f1: 2, f2: 1}, stay h1 and 790 / 210 / 158, and it is the fixed
\* attempt; a later change of the live assignments did not move it
C19_Witness ==
  \E c \in Clients : \E d \in Listed(c) :
    /\ Len(d.budgetEstimator.attempts) = 1
    /\ d.budgetEstimator.attempts[1].name = "Saved baseline"
    /\ d.budgetEstimator.attempts[1].flightAssignments =
         SeedDestination.budgetEstimator.flightAssignments
    /\ d.budgetEstimator.attempts[1].selectedAccommodationId = "h1"
    /\ costFields(d.budgetEstimator.attempts[1]) = <<N(790), N(210), N(158)>>
    /\ d.budgetEstimator.fixedAttemptId = d.budgetEstimator.attempts[1].id
    /\ d.budgetEstimator.flightAssignments = [id \in {"f2"} |-> N(1)]
    /\ steps = MaxSteps

\* the assignment maps of a destination: the live one and those of its attempts
assignmentMapsOf(d) ==
  {d.budgetEstimator.flightAssignments} \cup
  {d.budgetEstimator.attempts[i].flightAssignments : i \in DOMAIN d.budgetEstimator.attempts}

\* C20: in every reachable state no flightAssignments map, live or inside a
\* saved attempt, has a key whose count is 0.
C20_NoZeroCounts ==
  \A d \in AllDestinations :
    \A map \in assignmentMapsOf(d) :
      \A key \in DOMAIN map : map[key] # N(0)

(***************************************************************************)
(* Destination ids                                                         *)
(***************************************************************************)
\* C21: in every reachable state no two destinations of a client's list have
\* the same id, so an update addressed to one id modifies exactly one
\* destination.
C21_DestinationIdsUnique ==
  \A c \in Clients : \A i, j \in DOMAIN destinations[c] :
    destinations[c][i].id = destinations[c][j].id => i = j

(***************************************************************************)
(* Sync operations of one client                                           *)
(***************************************************************************)
SyncPending(c) == task[c] # Idle

\* a Pull or a Push gets past its early returns only when nothing is pending
StartsOnlyWhenIdle ==
  \A c \in Clients :
    (PullStart(c) \/ PushStart(c)) => ~SyncPending(c) /\ ~isPulling[c] /\ ~isPushing[c]

\* the two flags are never set together, and one of them is set exactly while
\* an operation is pending
OneOperationPending ==
  \A c \in Clients :
    /\ ~(isPulling[c] /\ isPushing[c])
    /\ SyncPending(c) <=> (isPulling[c] \/ isPushing[c])
    /\ isPulling[c] <=> task[c].pc = "pull-get"

\* C22: per client at most one sync operation (Pull or Push) is outstanding
\* at any time; while one is pending no second Pull or Push can be started
\* until the pending one has completed.
C22_OneSyncOutstanding == [][StartsOnlyWhenIdle /\ OneOperationPending']_vars

\* C22 witness: a Pull of c1 is pending while c1's user could still click
C22_Witness ==
  /\ task["c1"].pc = "pull-get"
  /\ isPulling["c1"]
  /\ Responsive("c1")
  /\ steps < MaxSteps

\* the statuses the handlers report when they are through
PullEndStatuses == PullFailureStatuses \cup {Status("success", "pulled")}
PushEndStatuses ==
  {Status("warning", "push canceled"), Status("error", "failed to push"),
   Status("success", "pushed")}

\* the step that ends an operation sets a status and clears the flags
EndsWithStatus ==
  \A c \in Clients :
    (SyncPending(c) /\ ~SyncPending(c)') =>
      /\ ~isPulling'[c] /\ ~isPushing'[c]
      /\ isPulling[c] => syncStatus'[c] \in PullEndStatuses
      /\ isPushing[c] => syncStatus'[c] \in PushEndStatuses

\* C23: every started Pull or Push whose remote call returns or fails ends
\* with a status {kind, message} set and with isPulling / isPushing cleared,
\* on every path (not found, invalid remote data, declined override, success,
\* an exception while reading, normalizing or writing); nothing escapes the
\* handler.
C23_SyncAlwaysEnds ==
  /\ [][EndsWithStatus]_vars
  /\ \A c \in Clients :
       SyncPending(c) ~> (~SyncPending(c) /\ ~isPulling[c] /\ ~isPushing[c])

\* C23 witness: a Pull that hit a throwing normalizer has ended in the catch
\* block with the flag cleared
C23_Witness ==
  /\ syncStatus["c1"] = Status("error", "failed to pull")
  /\ \E code \in TripCodes : tripCode["c1"] = code /\ remote[code] = NullCostPayload
  /\ ~isPulling["c1"]
  /\ ~SyncPending("c1")

(***************************************************************************)
(* Staleness check                                                         *)
(***************************************************************************)
StalenessCheck(c) ==
  checkRemoteUpdatedAt(c) \/ RemoteCheckResolves(c) \/ RemoteCheckRejects(c)

\* hasRemoteChangesSinceLastSync: the "remote has changed" indicator
hasRemoteChangesSinceLastSync(c) ==
  /\ latestRemoteUpdatedAt[c] # Null
  /\ NLt(IF hasValidTripCode(c) THEN AtCode(lastKnownRemoteByCode[c], tripCode[c]) ELSE N(0),
         latestRemoteUpdatedAt[c])

StalenessCheckOnlyIndicates ==
  \A c \in Clients :
    StalenessCheck(c) =>
      /\ UNCHANGED <<destinations, settings, lastKnownRemoteByCode, lastLocalPushByCode>>
      /\ UNCHANGED <<tripCode, syncStatus, isPulling, isPushing, task, remote>>
      /\ \A other \in Clients \ {c} :
           /\ latestRemoteUpdatedAt'[other] = latestRemoteUpdatedAt[other]
           /\ lastRemoteCheckAt'[other] = lastRemoteCheckAt[other]

\* C30: a staleness check (interval timer, window focus, visibility change)
\* never changes local destinations, settings, or the last-known-remote and
\* last-local-push markers, whatever the remote returns; it only updates the
\* latest-remote-timestamp indicator and the last-check time.
C30_StalenessCheckOnlyIndicates == [][StalenessCheckOnlyIndicates]_vars

\* C30 witness: a check of c1 has settled and found the remote newer than the
\* last known value, and c1 still has the document it started with
C30_Witness ==
  /\ lastRemoteCheckAt["c1"] # Null
  /\ hasRemoteChangesSinceLastSync("c1")
  /\ syncStatus["c1"] = Status("neutral", "enter a trip code")
  /\ destinations["c1"] = <<SeedDestination>>

(***************************************************************************)
(* Push that proceeds                                                      *)
(***************************************************************************)
\* the handler carries the document of the render it was started from up to
\* the write: what set() is handed is that document, stamped with Date.now()
\* and the client id
PushCarriesStartDocument ==
  \A c \in Clients :
    /\ (task[c] = Idle /\ task'[c].pc = "push-get") =>
         /\ task'[c].code = tripCode[c]
         /\ task'[c].destinations = destinations[c]
         /\ task'[c].settings = settings[c]
    /\ (task[c].pc = "push-get" /\ task'[c].pc = "push-confirm") =>
         /\ task'[c].code = task[c].code
         /\ task'[c].destinations = task[c].destinations
         /\ task'[c].settings = task[c].settings
    /\ (task[c].pc \in {"push-get", "push-confirm"} /\ task'[c].pc = "push-set") =>
         /\ task'[c].code = task[c].code
         /\ task'[c].updatedAt = N(now)
         /\ task'[c].payload =
              tripSyncPayload(task[c].destinations, task[c].settings, N(now), c)

\* the write lands: the remote document is what was handed to set(), and the
\* markers of the pushed code and the displayed timestamp are its updatedAt
PushSuccessMarks ==
  \A c \in Clients :
    PushWrites(c) =>
      /\ remote'[task[c].code] = task[c].payload
      /\ Get(Get(remote'[task[c].code], "meta"), "updatedBy") = JStr(c)
      /\ remoteUpdatedAtOf(remote'[task[c].code]) = task[c].updatedAt
      /\ AtCode(lastKnownRemoteByCode'[c], task[c].code) = task[c].updatedAt
      /\ AtCode(lastLocalPushByCode'[c], task[c].code) = task[c].updatedAt
      /\ tripCode'[c] = task[c].code => ~hasRemoteChangesSinceLastSync(c)'

\* the last-known-remote marker of the client's code is not behind the remote
KnowsRemote(c) ==
  /\ hasValidTripCode(c)
  /\ \/ remoteUpdatedAtOf(remote[tripCode[c]]) = Null
     \/ NLe(remoteUpdatedAtOf(remote[tripCode[c]]),
            AtCode(lastKnownRemoteByCode[c], tripCode[c]))

\* with the marker not behind the remote, the indicator stays off while the
\* remote store and the trip code field stay as they are
IndicatorStaysOff ==
  \A c \in Clients :
    (/\ KnowsRemote(c)
     /\ ~hasRemoteChangesSinceLastSync(c)
     /\ remote' = remote
     /\ tripCode'[c] = tripCode[c]) => ~hasRemoteChangesSinceLastSync(c)'

\* what does hold of a Push whose write succeeds: the remote document is the
\* one the client had when the Push was started, stamped with its id; both
\* markers of the pushed code are the written updatedAt; while the trip code
\* field holds the pushed code the indicator is off, and stays off until the
\* remote store changes
PushWritesStartDocument ==
  [][PushCarriesStartDocument /\ PushSuccessMarks /\ IndicatorStaysOff]_vars

\* C27: after a Push that proceeds and whose write succeeds, the remote
\* document holds the pushing client's destinations and settings with
\* meta.updatedBy equal to its client id, the client's last-known-remote and
\* last-local-push markers for the code both equal the written
\* meta.updatedAt, and the client's remote-has-changed indicator is off.
PushLeavesClientInSync ==
  \A c \in Clients :
    PushWrites(c) =>
      /\ remote'[task[c].code] =
           tripSyncPayload(destinations'[c], settings'[c], task[c].updatedAt, c)
      /\ AtCode(lastKnownRemoteByCode'[c], task[c].code) = task[c].updatedAt
      /\ AtCode(lastLocalPushByCode'[c], task[c].code) = task[c].updatedAt
      /\ ~hasRemoteChangesSinceLastSync(c)'

C27_PushLeavesClientInSync == [][PushLeavesClientInSync]_vars

(***************************************************************************)
(* C28: applying the saved baseline                                        *)
(***************************************************************************)
\* what a call of applySavedBaseline makes of one destination
baselineApplied(old, new) ==
  IF old.budgetEstimator.attempts = <<>>
  THEN new = old
  ELSE LET saved == savedAttempt(old.budgetEstimator)[1]
       IN /\ new.budgetEstimator.attempts = old.budgetEstimator.attempts
          /\ new.budgetEstimator.fixedAttemptId = old.budgetEstimator.fixedAttemptId
          /\ new.budgetEstimator.flightAssignments = saved.flightAssignments
          /\ new.budgetEstimator.selectedAccommodationId = saved.selectedAccommodationId
          /\ [new EXCEPT !.budgetEstimator.flightAssignments =
                            old.budgetEstimator.flightAssignments,
                         !.budgetEstimator.selectedAccommodationId =
                            old.budgetEstimator.selectedAccommodationId] = old

ApplySavedCopiesAttempt ==
  \A c \in Clients :
    applySavedBaseline(c) =>
      /\ Len(destinations'[c]) = Len(destinations[c])
      /\ \E i \in DOMAIN destinations[c] :
           /\ baselineApplied(destinations[c][i], destinations'[c][i])
           /\ \A j \in DOMAIN destinations[c] \ {i} : destinations'[c][j] = destinations[c][j]
      /\ settings'[c] = settings[c]

\* C28: applySavedBaseline on a destination with a saved attempt leaves the
\* attempts and fixedAttemptId as they were and sets the live
\* flightAssignments and the live selectedAccommodationId, both of them, to
\* those of the saved attempt, changing nothing else; without a saved
\* attempt it changes nothing.
C28_ApplySavedCopiesAttempt == [][ApplySavedCopiesAttempt]_vars

\* C28 witness: the document pulled from the trip has the live assignments
\* {f1: 1, f2: 1} and the attempt a2 with {f2: 1} and stay h2; the apply
\* leaves it with the live assignments {f2: 1} and the live stay h2, the
\* attempt and the flights still there
C28_Witness ==
  \E c \in Clients : \E d \in Listed(c) :
    /\ Len(d.budgetEstimator.attempts) = 1
    /\ d.budgetEstimator.attempts[1].id = "a2"
    /\ d.budgetEstimator.fixedAttemptId = "a2"
    /\ d.budgetEstimator.attempts[1].flightAssignments = [id \in {"f2"} |-> N(1)]
    /\ d.budgetEstimator.flightAssignments = [id \in {"f2"} |-> N(1)]
    /\ d.budgetEstimator.selectedAccommodationId = "h2"
    /\ Len(d.flights) = 1
    /\ steps = 2

(***************************************************************************)
(* C29: overriding the saved baseline with the current selection           *)
(***************************************************************************)
\* what a call of replaceSavedWithCurrent makes of one destination
baselineReplaced(old, new, sett, clock) ==
  IF old.budgetEstimator.attempts = <<>>
  THEN new = old
  ELSE LET saved == savedAttempt(old.budgetEstimator)[1]
       IN /\ Len(new.budgetEstimator.attempts) = 1
          /\ new.budgetEstimator.attempts[1].id = saved.id
          /\ new.budgetEstimator.fixedAttemptId = old.budgetEstimator.fixedAttemptId
          /\ new.budgetEstimator.attempts[1].flightAssignments =
               old.budgetEstimator.flightAssignments
          /\ new.budgetEstimator.attempts[1].selectedAccommodationId =
               old.budgetEstimator.selectedAccommodationId
          /\ costFields(new.budgetEstimator.attempts[1]) =
               <<liveSnapshot(old, sett).totalCost, liveSnapshot(old, sett).remaining,
                 liveSnapshot(old, sett).perPersonTotal>>
          /\ new.budgetEstimator.attempts[1].createdAt = N(clock)
          /\ NLe(saved.createdAt, new.budgetEstimator.attempts[1].createdAt)
          /\ [new EXCEPT !.budgetEstimator.attempts = old.budgetEstimator.attempts] = old

OverrideReplacesAttempt ==
  \A c \in Clients :
    replaceSavedWithCurrent(c) =>
      /\ Len(destinations'[c]) = Len(destinations[c])
      /\ \E i \in DOMAIN destinations[c] :
           /\ baselineReplaced(destinations[c][i], destinations'[c][i], settings[c], now)
           /\ \A j \in DOMAIN destinations[c] \ {i} : destinations'[c][j] = destinations[c][j]
      /\ settings'[c] = settings[c]

OwnSnapshotArrives ==
  /\ SnapshotArrives
  /\ Head(liveEvents).k = "trip"
  /\ Head(liveEvents).meta.updatedBy = LiveClientId

OwnSnapshotsNotApplied ==
  OwnSnapshotArrives =>
    /\ live'.destinations = live.destinations
    /\ live'.settings = live.settings

\* C25: in the live App a snapshot written by this browser is never applied
\* to its local state: however its writes and the arrival of their change
\* notifications are ordered, the callback leaves destinations and settings
\* as they were when the snapshot it is handed is the browser's own.
C25_OwnSnapshotsNeverApplied == [][OwnSnapshotsNotApplied]_vars

(***************************************************************************)
(* C26: a join or create attempt ends                                      *)
(***************************************************************************)
JoinPending == live.join # NoJoin

\* the status line is 'connecting' exactly while the handler is pending
ConnectingWhilePending == (live.syncStatus = "connecting") <=> JoinPending

EndsConnectedOrError ==
  (JoinPending /\ ~JoinPending') => live'.syncStatus \in {"connected", "error"}

\* what the step reports when the timer ended the attempt is not what it
\* reports when get() or set() rejected
TimeoutIsDistinct ==
  /\ JoinTimesOut => (live'.syncStatus = "error" /\ ~JoinPending')
  /\ ~(JoinTimesOut /\ JoinFails)

\* C26: in the live App an attempt to join or create a trip does not stay in
\* 'connecting' for ever: the status line is 'connecting' exactly while the
\* handler is pending, the step that ends the handler sets 'connected' or
\* 'error', with the timer of withTimeout firing eventually every
\* 'connecting' leads to 'connected' or 'error', and the status and message
\* reported after a timeout differ from those reported after a rejected call.
C26_JoinAlwaysEnds ==
  /\ [](ConnectingWhilePending)
  /\ [][EndsConnectedOrError /\ TimeoutIsDistinct]_vars
  /\ (live.syncStatus = "connecting") ~> (live.syncStatus \in {"connected", "error"})

\* C26 witness: an attempt to create the trip CDCDCDCD, whose get() found
\* nothing and whose set() was pending, was ended by the timer
C26_Witness ==
  /\ live.syncStatus = "error"
  /\ live.syncMessage = "connection timed out"
  /\ live.join = NoJoin
  /\ live.activeTripCode = <<>>
  /\ live.lastLocalWriteAt # 0

(***************************************************************************)
(* C24: trip codes                                                         *)
(***************************************************************************)
\* only characters the normalizers keep, and at most max of them
IsCode(code, max) ==
  /\ \A i \in DOMAIN code : IsCodeChar(code[i])
  /\ Len(code) <= max

\* what the two fields hold is a code, and normalizing it again returns it
FieldsHoldCodes ==
  /\ \A c \in Clients :
       /\ IsCode(tripCode[c], TRIP_CODE_MAX_LENGTH)
       /\ normalizeTripCode(tripCode[c]) = tripCode[c]
  /\ IsCode(live.tripCodeInput, LIVE_TRIP_CODE_LENGTH)
  /\ liveNormalizeTripCode(live.tripCodeInput) = live.tripCodeInput

\* a step in which a handler of client c issues its first remote call
ManualSyncStarts(c) == task[c] = Idle /\ task'[c] # Idle
JoinStarts == live.join = NoJoin /\ live'.join # NoJoin

ShortCodeBlocksManualSync ==
  \A c \in Clients :
    Len(tripCode[c]) < TRIP_CODE_MIN_LENGTH =>
      /\ ~ManualSyncStarts(c)
      /\ remote' = remote

\* every remote call is for a code of at least the minimum length
RemoteCallsHaveValidCodes ==
  /\ \A c \in Clients :
       /\ task[c] # Idle => Len(task[c].code) >= TRIP_CODE_MIN_LENGTH
       /\ \A r \in remoteChecks[c] : Len(r.code) >= TRIP_CODE_MIN_LENGTH
  /\ live.join # NoJoin =>
       /\ Len(live.join.code) >= LIVE_TRIP_CODE_MIN_LENGTH
       /\ IsCode(live.join.code, LIVE_TRIP_CODE_LENGTH)

\* C24 as stated: the trip code fields hold strings of the code alphabet of
\* at most 12 (manual App) and 8 (live App) characters that normalization
\* leaves unchanged, and with a code shorter than 4 (manual) or 6 (live) in
\* the field no Pull, Push or join reaches the remote store.
C24_ShortCodeBlocksEveryOperation ==
  /\ [](FieldsHoldCodes)
  /\ [][/\ ShortCodeBlocksManualSync
        /\ Len(live.tripCodeInput) < LIVE_TRIP_CODE_MIN_LENGTH => ~JoinStarts]_vars

\* C24 amended: as above, but for the live App only a non-empty code shorter
\* than 6 blocks the join; with an empty field the join goes on with a
\* generated code, and every remote call of either App is for a code of at
\* least the minimum length.
C24_ShortCodeBlocksUnlessGenerated ==
  /\ [](FieldsHoldCodes /\ RemoteCallsHaveValidCodes)
  /\ [][/\ ShortCodeBlocksManualSync
        /\ (/\ live.tripCodeInput # <<>>
            /\ Len(live.tripCodeInput) < LIVE_TRIP_CODE_MIN_LENGTH) => ~JoinStarts
        /\ (JoinStarts /\ live.tripCodeInput = <<>>) =>
              (live'.join.code \in GeneratedTripCodes /\ live'.join.pc = "get")]_vars

\* C24 witness: a client of the manual App with the code AB in its field
\* clicked Pull or Push and was told the code is too short, nothing pending;
\* the live App with ABCD in its field clicked Start / Join and was told
\* the same, no attempt pending
C24_Witness ==
  /\ \E c \in Clients :
       /\ tripCode[c] = <<"A", "B">>
       /\ syncStatus[c] = Status("warning", "code too short")
       /\ task[c] = Idle
  /\ live.tripCodeInput = <<"A", "B", "C", "D">>
  /\ live.syncStatus = "error"
  /\ live.syncMessage = "code too short"
  /\ live.join = NoJoin
====
